---- MODULE Spec2Model ----
(***************************************************************************)
(* Agent API (src/agent/app.py): the chat endpoint and the streaming       *)
(* generator generate_stream that turns the agent's message stream into    *)
(* newline-delimited JSON records (chunk, status, image, final message).   *)
(*                                                                         *)
(* Python strings are sequences of characters; a character is a one-       *)
(* character string, a non-ASCII code point is written "U+XXXX".  An        *)
(* optional field (dict.get / getattr with a default) is <<>> when absent  *)
(* and <<v>> when present.                                                 *)
(***************************************************************************)
EXTENDS Integers, Sequences, FiniteSets, TLC

(***************************************************************************)
(* String literals of the source.                                          *)
(***************************************************************************)
kw_semantic_search ==
    <<"s", "e", "m", "a", "n", "t", "i", "c", "_", "s", "e", "a", "r", "c", "h">>
kw_execute_sales_query ==
    <<"e", "x", "e", "c", "u", "t", "e", "_", "s", "a", "l", "e", "s", "_", "q", "u",
      "e", "r", "y">>
kw_get_table_schemas ==
    <<"g", "e", "t", "_", "t", "a", "b", "l", "e", "_", "s", "c", "h", "e", "m", "a",
      "s">>
kw_get_current_utc_date ==
    <<"g", "e", "t", "_", "c", "u", "r", "r", "e", "n", "t", "_", "u", "t", "c", "_",
      "d", "a", "t", "e">>
kw_image == <<"i", "m", "a", "g", "e">>
kw_generate_image ==
    <<"g", "e", "n", "e", "r", "a", "t", "e", "_", "i", "m", "a", "g", "e">>
kw_web_search == <<"w", "e", "b", "_", "s", "e", "a", "r", "c", "h">>
kw_code_interpreter ==
    <<"c", "o", "d", "e", "_", "i", "n", "t", "e", "r", "p", "r", "e", "t", "e", "r">>
kw_code == <<"c", "o", "d", "e">>
kw_query == <<"q", "u", "e", "r", "y">>
kw_sql == <<"s", "q", "l">>
kw_database == <<"d", "a", "t", "a", "b", "a", "s", "e">>
kw_db == <<"d", "b">>
kw_sales == <<"s", "a", "l", "e", "s">>
kw_customer == <<"c", "u", "s", "t", "o", "m", "e", "r">>
kw_order == <<"o", "r", "d", "e", "r">>
kw_product == <<"p", "r", "o", "d", "u", "c", "t">>
lbl_searching_products ==
    <<"U+1F50D", " ", "S", "e", "a", "r", "c", "h", "i", "n", "g", " ", "p", "r", "o",
      "d", "u", "c", "t", "s", ".", ".", ".">>
lbl_querying_database ==
    <<"U+1F50D", " ", "Q", "u", "e", "r", "y", "i", "n", "g", " ", "d", "a", "t", "a",
      "b", "a", "s", "e", ".", ".", ".">>
lbl_getting_time ==
    <<"U+23F0", " ", "G", "e", "t", "t", "i", "n", "g", " ", "c", "u", "r", "r", "e",
      "n", "t", " ", "t", "i", "m", "e", ".", ".", ".">>
lbl_generating_image ==
    <<"U+1F3A8", " ", "G", "e", "n", "e", "r", "a", "t", "i", "n", "g", " ", "i", "m",
      "a", "g", "e", ".", ".", ".">>
lbl_searching_web ==
    <<"U+1F50E", " ", "S", "e", "a", "r", "c", "h", "i", "n", "g", " ", "t", "h", "e",
      " ", "w", "e", "b", ".", ".", ".">>
lbl_running_code ==
    <<"U+1F4BB", " ", "R", "u", "n", "n", "i", "n", "g", " ", "c", "o", "d", "e", ".",
      ".", ".">>
lbl_using == <<"U+2699", "U+FE0F", " ", "U", "s", "i", "n", "g", " ">>
lbl_dots == <<".", ".", ".">>
str_tool == <<"t", "o", "o", "l">>
str_png == <<"p", "n", "g">>
str_base64 == <<"b", "a", "s", "e", "6", "4">>
str_type == <<"t", "y", "p", "e">>
str_format == <<"f", "o", "r", "m", "a", "t">>
str_assistant == <<"a", "s", "s", "i", "s", "t", "a", "n", "t">>
str_image_slash == <<"i", "m", "a", "g", "e", "/">>
str_image_png == <<"i", "m", "a", "g", "e", "/", "p", "n", "g">>
str_data_image == <<"d", "a", "t", "a", ":", "i", "m", "a", "g", "e", "/">>
str_type_image ==
    <<"\"", "t", "y", "p", "e", "\"", ":", " ", "\"", "i", "m", "a", "g", "e", "\"">>
txt_hi == <<"H", "i">>
txt_ok == <<"o", "k">>
txt_rows == <<"3", " ", "r", "o", "w", "s">>
b64_a == <<"Q", "Q">>
b64_b == <<"Q", "g">>
fmt_jpeg == <<"j", "p", "e", "g">>
mime_jpeg == <<"i", "m", "a", "g", "e", "/", "j", "p", "e", "g">>
mime_csv == <<"t", "e", "x", "t", "/", "c", "s", "v">>
uri_jpeg ==
    <<"d", "a", "t", "a", ":", "i", "m", "a", "g", "e", "/", "j", "p", "e", "g", ";",
      "b", "a", "s", "e", "6", "4", ",", "Q", "Q">>
uri_no_comma ==
    <<"d", "a", "t", "a", ":", "i", "m", "a", "g", "e", "/", "p", "n", "g", ";", "b",
      "a", "s", "e", "6", "4">>
name_get_weather == <<"g", "e", "t", "_", "w", "e", "a", "t", "h", "e", "r">>
name_Web_Search == <<"W", "e", "b", "_", "S", "e", "a", "r", "c", "h">>
json_image ==
    <<"{", "\"", "t", "y", "p", "e", "\"", ":", " ", "\"", "i", "m", "a", "g", "e",
      "\"", ",", " ", "\"", "b", "a", "s", "e", "6", "4", "\"", ":", " ", "\"", "Q",
      "Q", "\"", ",", " ", "\"", "f", "o", "r", "m", "a", "t", "\"", ":", " ", "\"",
      "j", "p", "e", "g", "\"", "}">>
json_image_bare ==
    <<"{", "\"", "t", "y", "p", "e", "\"", ":", " ", "\"", "i", "m", "a", "g", "e",
      "\"", ",", " ", "\"", "b", "a", "s", "e", "6", "4", "\"", ":", " ", "\"", "Q",
      "g", "\"", "}">>
json_text ==
    <<"{", "\"", "t", "y", "p", "e", "\"", ":", " ", "\"", "t", "e", "x", "t", "\"",
      ",", " ", "\"", "c", "o", "n", "t", "e", "n", "t", "\"", ":", " ", "\"", "b",
      "a", "s", "e", "6", "4", " ", "p", "n", "g", "\"", "}">>
json_broken ==
    <<"{", "\"", "t", "y", "p", "e", "\"", ":", " ", "\"", "i", "m", "a", "g", "e",
      "\"", ",", " ", "\"", "b", "a", "s", "e", "6", "4", "\"", ":", " ", "\"", "Q",
      "Q", "\"">>
name_unknown_tool_x ==
    <<"u", "n", "k", "n", "o", "w", "n", "_", "t", "o", "o", "l", "_", "x">>
name_customer_lookup ==
    <<"c", "u", "s", "t", "o", "m", "e", "r", "_", "l", "o", "o", "k", "u", "p">>
name_sales_report == <<"s", "a", "l", "e", "s", "_", "r", "e", "p", "o", "r", "t">>
name_web_search_image ==
    <<"w", "e", "b", "_", "s", "e", "a", "r", "c", "h", "_", "i", "m", "a", "g", "e">>
say_searching_products ==
    <<"S", "e", "a", "r", "c", "h", "i", "n", "g", " ", "p", "r", "o", "d", "u", "c",
      "t", "s">>
say_querying_database ==
    <<"Q", "u", "e", "r", "y", "i", "n", "g", " ", "d", "a", "t", "a", "b", "a", "s",
      "e">>
say_getting_time ==
    <<"G", "e", "t", "t", "i", "n", "g", " ", "c", "u", "r", "r", "e", "n", "t", " ",
      "t", "i", "m", "e">>
say_generating_image ==
    <<"G", "e", "n", "e", "r", "a", "t", "i", "n", "g", " ", "i", "m", "a", "g", "e">>
say_searching_web ==
    <<"S", "e", "a", "r", "c", "h", "i", "n", "g", " ", "t", "h", "e", " ", "w", "e",
      "b">>
say_running_code == <<"R", "u", "n", "n", "i", "n", "g", " ", "c", "o", "d", "e">>
say_using_unknown_tool_x ==
    <<"U", "s", "i", "n", "g", " ", "u", "n", "k", "n", "o", "w", "n", "_", "t", "o",
      "o", "l", "_", "x">>
say_using_tool == <<"U", "s", "i", "n", "g", " ", "t", "o", "o", "l">>
b64_abcd == <<"Q", "U", "J", "D">>
b64_two_parts == <<"Q", "Q", ",", "Q", "g">>
fmt_svg == <<"s", "v", "g", "+", "x", "m", "l">>
uri_abcd ==
    <<"d", "a", "t", "a", ":", "i", "m", "a", "g", "e", "/", "j", "p", "e", "g", ";",
      "b", "a", "s", "e", "6", "4", ",", "Q", "U", "J", "D">>
uri_svg ==
    <<"d", "a", "t", "a", ":", "i", "m", "a", "g", "e", "/", "s", "v", "g", "+", "x",
      "m", "l", ";", "c", "h", "a", "r", "s", "e", "t", "=", "u", "t", "f", "-", "8",
      ";", "b", "a", "s", "e", "6", "4", ",", "Q", "g">>
uri_two_commas ==
    <<"d", "a", "t", "a", ":", "i", "m", "a", "g", "e", "/", "p", "n", "g", ";", "b",
      "a", "s", "e", "6", "4", ",", "Q", "Q", ",", "Q", "g">>
txt_hello == <<"h", "e", "l", "l", "o">>
json_image_compact ==
    <<"{", "\"", "t", "y", "p", "e", "\"", ":", "\"", "i", "m", "a", "g", "e", "\"",
      ",", "\"", "b", "a", "s", "e", "6", "4", "\"", ":", "\"", "Q", "Q", "\"", ",",
      "\"", "f", "o", "r", "m", "a", "t", "\"", ":", "\"", "j", "p", "e", "g", "\"",
      "}">>
str_not_valid == <<"{", "n", "o", "t", " ", "v", "a", "l", "i", "d">>
json_image_data ==
    <<"{", "\"", "t", "y", "p", "e", "\"", ":", " ", "\"", "i", "m", "a", "g", "e",
      "\"", ",", " ", "\"", "d", "a", "t", "a", "\"", ":", " ", "\"", "Q", "Q", "\"",
      "}">>
uri_no_format ==
    <<"d", "a", "t", "a", ":", "i", "m", "a", "g", "e", "/", ";", "b", "a", "s", "e",
      "6", "4", ",", "Q", "Q">>
json_image_empty ==
    <<"{", "\"", "t", "y", "p", "e", "\"", ":", " ", "\"", "i", "m", "a", "g", "e",
      "\"", ",", " ", "\"", "b", "a", "s", "e", "6", "4", "\"", ":", " ", "\"", "\"",
      "}">>
name_Get_Weather == <<"G", "e", "t", "_", "W", "e", "a", "t", "h", "e", "r">>
say_using == <<"U", "s", "i", "n", "g", " ">>
sql_SELECT == <<"S", "E", "L", "E", "C", "T">>
pat_dashes == <<"-", "-">>
pat_block == <<"/", "*">>
pat_DROP == <<"D", "R", "O", "P", " ">>
pat_DELETE == <<"D", "E", "L", "E", "T", "E", " ">>
pat_INSERT == <<"I", "N", "S", "E", "R", "T", " ">>
pat_UPDATE == <<"U", "P", "D", "A", "T", "E", " ">>
pat_ALTER == <<"A", "L", "T", "E", "R", " ">>
pat_CREATE == <<"C", "R", "E", "A", "T", "E", " ">>
pat_TRUNCATE == <<"T", "R", "U", "N", "C", "A", "T", "E", " ">>
pat_GRANT == <<"G", "R", "A", "N", "T", " ">>
pat_REVOKE == <<"R", "E", "V", "O", "K", "E", " ">>
pat_EXEC == <<"E", "X", "E", "C", " ">>
pat_EXECUTE == <<"E", "X", "E", "C", "U", "T", "E", " ">>
q_select_one == <<"S", "E", "L", "E", "C", "T", " ", "1">>
q_padded ==
    <<" ", " ", "s", "e", "l", "e", "c", "t", " ", "i", "d", " ", "f", "r", "o", "m",
      " ", "r", "e", "t", "a", "i", "l", ".", "o", "r", "d", "e", "r", "s", " ", ";",
      " ", " ">>
q_two_selects ==
    <<"S", "E", "L", "E", "C", "T", " ", "1", ";", " ", "S", "E", "L", "E", "C", "T",
      " ", "2">>
q_stacked_drop ==
    <<"s", "e", "l", "e", "c", "t", " ", "1", ";", " ", "d", "r", "o", "p", " ", "t",
      "a", "b", "l", "e", " ", "t">>
q_drop == <<"D", "R", "O", "P", " ", "T", "A", "B", "L", "E", " ", "t">>
q_update ==
    <<"u", "p", "d", "a", "t", "e", " ", "t", " ", "s", "e", "t", " ", "a", " ", "=",
      " ", "1">>
q_comment == <<"S", "E", "L", "E", "C", "T", " ", "1", " ", "-", "-", " ", "x">>
q_block_comment ==
    <<"S", "E", "L", "E", "C", "T", " ", "/", "*", " ", "x", " ", "*", "/", " ", "1">>
q_into_delete ==
    <<"s", "e", "l", "e", "c", "t", " ", "1", " ", "u", "n", "i", "o", "n", " ", "d",
      "e", "l", "e", "t", "e", " ", "f", "r", "o", "m", " ", "t">>
q_updated_at ==
    <<"S", "E", "L", "E", "C", "T", " ", "u", "p", "d", "a", "t", "e", "d", "_", "a",
      "t", " ", "F", "R", "O", "M", " ", "t">>
q_two_semicolons == <<"S", "E", "L", "E", "C", "T", " ", "1", ";", ";">>
q_semicolon == <<";">>
q_execute ==
    <<"S", "e", "l", "e", "c", "t", " ", "1", " ", "w", "h", "e", "r", "e", " ", "e",
      "x", "e", "c", "u", "t", "e", " ", "p">>

(***************************************************************************)
(* Python string operations.                                               *)
(***************************************************************************)
UpperChars ==
    <<"A", "B", "C", "D", "E", "F", "G", "H", "I", "J", "K", "L", "M",
      "N", "O", "P", "Q", "R", "S", "T", "U", "V", "W", "X", "Y", "Z">>

LowerChars ==
    <<"a", "b", "c", "d", "e", "f", "g", "h", "i", "j", "k", "l", "m",
      "n", "o", "p", "q", "r", "s", "t", "u", "v", "w", "x", "y", "z">>

\* str.lower() on one character
LowerChar(c) ==
    IF \E i \in 1..Len(UpperChars) : UpperChars[i] = c
    THEN LowerChars[CHOOSE i \in 1..Len(UpperChars) : UpperChars[i] = c]
    ELSE c

\* str.lower()
StrLower(s) == [i \in 1..Len(s) |-> LowerChar(s[i])]

\* s[i:i+len(sub)] == sub, i counted from 1
MatchAt(s, sub, i) ==
    /\ i >= 1
    /\ i + Len(sub) - 1 <= Len(s)
    /\ SubSeq(s, i, i + Len(sub) - 1) = sub

\* s.find(sub) from position i on, counted from 1; 0 when sub does not occur
RECURSIVE FindFrom(_, _, _)
FindFrom(s, sub, i) ==
    IF i + Len(sub) - 1 > Len(s) THEN 0
    ELSE IF MatchAt(s, sub, i) THEN i
    ELSE FindFrom(s, sub, i + 1)

\* s.find(sub) counted from 1; 0 when sub does not occur
StrFind(s, sub) == FindFrom(s, sub, 1)

\* sub in s
StrContains(s, sub) == StrFind(s, sub) # 0

\* s.startswith(prefix)
StartsWith(s, prefix) == MatchAt(s, prefix, 1)

\* s.rfind(sub) from position i down, counted from 1; 0 when sub does not occur
RECURSIVE RFindFrom(_, _, _)
RFindFrom(s, sub, i) ==
    IF i < 1 THEN 0
    ELSE IF MatchAt(s, sub, i) THEN i
    ELSE RFindFrom(s, sub, i - 1)

\* s.rfind(sub) counted from 1; 0 when sub does not occur
StrRFind(s, sub) == RFindFrom(s, sub, Len(s) - Len(sub) + 1)

\* s.split(sep)[0]: the part before the first sep, all of s without one
SplitHead(s, sep) ==
    LET at == StrFind(s, sep) IN
    IF at = 0 THEN s ELSE SubSeq(s, 1, at - 1)

\* the part after the first sep (s.split(sep, 1)[1]); needs sep in s
SplitRest(s, sep) == SubSeq(s, StrFind(s, sep) + Len(sep), Len(s))

\* s.split(sep)[1]: between the first and the second sep; needs sep in s
SplitSecond(s, sep) == SplitHead(SplitRest(s, sep), sep)

\* s.split(sep)[-1]: the part after the last sep, all of s without one
SplitLast(s, sep) ==
    LET at == StrRFind(s, sep) IN
    IF at = 0 THEN s ELSE SubSeq(s, at + Len(sep), Len(s))

\* dict.get(key, default) / getattr(obj, name, default) on an optional field
GetOr(opt, default) == IF opt = <<>> THEN default ELSE opt[1]

(***************************************************************************)
(* get_tool_status: the status label for the tools being called.           *)
(***************************************************************************)
DbTerms ==
    <<kw_query, kw_sql, kw_database, kw_db, kw_sales, kw_customer, kw_order,
      kw_product>>

\* One pass of the loop body for one name: <<label>> when a branch returns,
\* <<>> when the loop goes on to the next name.
ToolStatusOfName(name) ==
    LET name_lower == IF name # <<>> THEN StrLower(name) ELSE <<>> IN
    IF StrContains(name_lower, kw_semantic_search)
        THEN <<lbl_searching_products>>
    ELSE IF \/ StrContains(name_lower, kw_execute_sales_query)
            \/ StrContains(name_lower, kw_get_table_schemas)
        THEN <<lbl_querying_database>>
    ELSE IF StrContains(name_lower, kw_get_current_utc_date)
        THEN <<lbl_getting_time>>
    ELSE IF \/ StrContains(name_lower, kw_image)
            \/ StrContains(name_lower, kw_generate_image)
        THEN <<lbl_generating_image>>
    ELSE IF StrContains(name_lower, kw_web_search)
        THEN <<lbl_searching_web>>
    ELSE IF \/ StrContains(name_lower, kw_code_interpreter)
            \/ StrContains(name_lower, kw_code)
        THEN <<lbl_running_code>>
    ELSE IF \E k \in 1..Len(DbTerms) : StrContains(name_lower, DbTerms[k])
        THEN <<lbl_querying_database>>
    ELSE <<>>

\* ToolStatusFrom whose default label never names the tool
RECURSIVE ToolStatusFromGeneric(_, _)
ToolStatusFromGeneric(tool_names, i) ==
    IF i > Len(tool_names)
    THEN lbl_using \o str_tool \o lbl_dots
    ELSE LET status == ToolStatusOfName(tool_names[i]) IN
         IF status # <<>> THEN status[1]
         ELSE ToolStatusFromGeneric(tool_names, i + 1)

\* ToolStatusFrom whose default label is the bare name of the first tool
RECURSIVE ToolStatusFromBareName(_, _)
ToolStatusFromBareName(tool_names, i) ==
    IF i > Len(tool_names)
    THEN IF tool_names # <<>> THEN tool_names[1] ELSE <<>>
    ELSE LET status == ToolStatusOfName(tool_names[i]) IN
         IF status # <<>> THEN status[1]
         ELSE ToolStatusFromBareName(tool_names, i + 1)

\* ToolStatusFrom in which a later matching name overrides an earlier one
ToolStatusFromLastMatch(tool_names, i) ==
    LET matching == {k \in i..Len(tool_names) :
                        ToolStatusOfName(tool_names[k]) # <<>>}
        last == CHOOSE k \in matching : \A j \in matching : j <= k
    IN  IF matching = {}
        THEN lbl_using
                \o (IF tool_names # <<>> THEN tool_names[1] ELSE str_tool)
                \o lbl_dots
        ELSE ToolStatusOfName(tool_names[last])[1]

\* ToolStatusFrom whose default label names the first tool in lower case
RECURSIVE ToolStatusFromLowerName(_, _)
ToolStatusFromLowerName(tool_names, i) ==
    IF i > Len(tool_names)
    THEN lbl_using
            \o (IF tool_names # <<>> THEN StrLower(tool_names[1]) ELSE str_tool)
            \o lbl_dots
    ELSE LET status == ToolStatusOfName(tool_names[i]) IN
         IF status # <<>> THEN status[1]
         ELSE ToolStatusFromLowerName(tool_names, i + 1)

RECURSIVE ToolStatusFrom(_, _)
ToolStatusFrom(tool_names, i) ==
    IF i > Len(tool_names)
    THEN lbl_using
            \o (IF tool_names # <<>> THEN tool_names[1] ELSE str_tool)
            \o lbl_dots
    ELSE LET status == ToolStatusOfName(tool_names[i]) IN
         IF status # <<>> THEN status[1]
         ELSE ToolStatusFrom(tool_names, i + 1)

get_tool_status(tool_names) == ToolStatusFrom(tool_names, 1)

(***************************************************************************)
(* json.loads on the documents the tools produce: a JSON string, or a flat *)
(* JSON object whose member values are JSON strings, with spaces as        *)
(* whitespace and no escape sequences.  A parsed object is the sequence    *)
(* of its <<key, value>> members; any other text is a JSONDecodeError.     *)
(***************************************************************************)
QUOTE == "\""

JsonError == [ok |-> FALSE]

CharAt(s, i) == IF i >= 1 /\ i <= Len(s) THEN <<s[i]>> ELSE <<>>

RECURSIVE SkipWs(_, _)
SkipWs(s, i) ==
    IF CharAt(s, i) = <<" ">> THEN SkipWs(s, i + 1) ELSE i

\* position of the first quote at or after i; 0 when there is none
RECURSIVE NextQuote(_, _)
NextQuote(s, i) ==
    IF i > Len(s) THEN 0
    ELSE IF s[i] = QUOTE THEN i
    ELSE NextQuote(s, i + 1)

\* a JSON string whose opening quote is at i
ParseString(s, i) ==
    LET close == NextQuote(s, i + 1) IN
    IF CharAt(s, i) # <<QUOTE>> \/ close = 0 THEN JsonError
    ELSE [ok |-> TRUE, val |-> SubSeq(s, i + 1, close - 1), next |-> close + 1]

\* the members of an object from the key at i on, up to the closing brace
RECURSIVE ParseMembers(_, _, _)
ParseMembers(s, i, acc) ==
    LET key == ParseString(s, i) IN
    IF ~key.ok THEN JsonError
    ELSE
    LET colon == SkipWs(s, key.next) IN
    IF CharAt(s, colon) # <<":">> THEN JsonError
    ELSE
    LET val == ParseString(s, SkipWs(s, colon + 1)) IN
    IF ~val.ok THEN JsonError
    ELSE
    LET sep == SkipWs(s, val.next)
        members == Append(acc, <<key.val, val.val>>)
    IN
    IF CharAt(s, sep) = <<",">>
        THEN ParseMembers(s, SkipWs(s, sep + 1), members)
    ELSE IF CharAt(s, sep) = <<"}">>
        THEN [ok |-> TRUE, val |-> members, next |-> sep + 1]
    ELSE JsonError

\* a JSON object whose opening brace is at i
ParseObject(s, i) ==
    LET first == SkipWs(s, i + 1) IN
    IF CharAt(s, first) = <<"}">>
    THEN [ok |-> TRUE, val |-> <<>>, next |-> first + 1]
    ELSE ParseMembers(s, first, <<>>)

\* json.loads(s): [ok, is_dict, val]; ok = FALSE stands for JSONDecodeError
JsonLoads(s) ==
    LET start == SkipWs(s, 1)
        parsed == IF CharAt(s, start) = <<"{">> THEN ParseObject(s, start)
                  ELSE ParseString(s, start)
    IN
    IF ~parsed.ok THEN JsonError
    ELSE IF SkipWs(s, parsed.next) # Len(s) + 1 THEN JsonError
    ELSE [ok |-> TRUE,
          is_dict |-> CharAt(s, start) = <<"{">>,
          val |-> parsed.val]

\* dict.get(key) on a parsed object: <<>> when the key is absent, else
\* <<value>> (of the last member with that key, as json.loads keeps it)
RECURSIVE DictGetFrom(_, _, _)
DictGetFrom(members, key, i) ==
    IF i = 0 THEN <<>>
    ELSE IF members[i][1] = key THEN <<members[i][2]>>
    ELSE DictGetFrom(members, key, i - 1)

DictGet(members, key) == DictGetFrom(members, key, Len(members))

(***************************************************************************)
(* The records generate_stream writes, one JSON object per line.           *)
(***************************************************************************)
ChunkRec(text) == [chunk |-> text]

StatusRec(status_msg) == [status |-> status_msg]

ImageRec(image_data) == [image |-> image_data]

DoneRec(message, imgs) ==
    [message |-> message, role |-> str_assistant, images |-> imgs, done |-> TRUE]

ImageData(b64, fmt) == [base64 |-> b64, format |-> fmt]

(***************************************************************************)
(* One run of the loop body of generate_stream.  The locals of the         *)
(* generator are a record a = [full_response, images, tool_in_progress];   *)
(* a.ys lists the yields of the run so far, each with the values the       *)
(* locals have while the generator is suspended at that yield.             *)
(***************************************************************************)
Locals(fr, im, tip) ==
    [full_response |-> fr, images |-> im, tool_in_progress |-> tip, ys |-> <<>>]

Yield(a, rec) ==
    [a EXCEPT !.ys = Append(@, [rec |-> rec,
                                full_response |-> a.full_response,
                                images |-> a.images,
                                tool_in_progress |-> a.tool_in_progress])]

\* YieldChunk without the accumulation
YieldChunkOnly(a, text) == Yield(a, ChunkRec(text))

\* full_response += text; yield {"chunk": text}
YieldChunk(a, text) ==
    Yield([a EXCEPT !.full_response = @ \o text], ChunkRec(text))

\* YieldImage without the append
YieldImageOnly(a, image_data) == Yield(a, ImageRec(image_data))

\* images.append(image_data); yield {"image": image_data}
YieldImage(a, image_data) ==
    Yield([a EXCEPT !.images = Append(@, image_data)], ImageRec(image_data))

\* tool_in_progress = True; yield {"status": status_msg}
YieldStatus(a, status_msg) ==
    Yield([a EXCEPT !.tool_in_progress = TRUE], StatusRec(status_msg))

\* YieldStatusClear that leaves the flag as it is
YieldStatusClearKeepsFlag(a) == Yield(a, StatusRec(<<>>))

\* tool_in_progress = False; yield {"status": ""}
YieldStatusClear(a) ==
    Yield([a EXCEPT !.tool_in_progress = FALSE], StatusRec(<<>>))

\* the image object of a tool result or of string content, from its members
JsonImageData(members) ==
    ImageData(GetOr(DictGet(members, str_base64), <<>>),
              GetOr(DictGet(members, str_format), str_png))

\* A tool result (message type tool or function): an image when the content
\* is a JSON object of type image, nothing otherwise.
OnToolResult(a, token) ==
    LET tool_content == token.content IN
    IF /\ tool_content.kind = "str"
       /\ tool_content.str # <<>>
       /\ StrContains(tool_content.str, str_base64)
       /\ \/ StrContains(tool_content.str, kw_image)
          \/ StrContains(tool_content.str, str_png)
    THEN LET tool_data == JsonLoads(tool_content.str) IN
         IF /\ tool_data.ok
            /\ tool_data.is_dict
            /\ DictGet(tool_data.val, str_type) = <<kw_image>>
         THEN YieldImage(a, JsonImageData(tool_data.val))
         ELSE a
    ELSE a

\* the names of token.tool_calls
ToolCallNames(tool_calls) ==
    [i \in 1..Len(tool_calls) |-> GetOr(tool_calls[i].name, str_tool)]

\* the names of token.additional_kwargs["tool_calls"]
KwargsToolCallNames(tool_calls) ==
    [i \in 1..Len(tool_calls) |-> GetOr(tool_calls[i].function.name, str_tool)]

\* OnToolCalls without the test of tool_in_progress
OnToolCallsAlways(a, tool_names) == YieldStatus(a, get_tool_status(tool_names))

\* A message that calls tools: a status unless one is showing.
OnToolCalls(a, tool_names) ==
    IF ~a.tool_in_progress
    THEN YieldStatus(a, get_tool_status(tool_names))
    ELSE a

\* Reset tool status when actual content arrives.
ResetToolStatus(a) ==
    IF a.tool_in_progress THEN YieldStatusClear(a) ELSE a

\* DataUriImage that splits at the last comma
DataUriImageLastComma(url) ==
    IF StrContains(url, <<",">>)
    THEN LET at == StrRFind(url, <<",">>)
             mime_part == SubSeq(url, 1, at - 1)
             b64_data == SubSeq(url, at + 1, Len(url))
             img_format ==
                IF StrContains(mime_part, str_image_slash)
                THEN SplitHead(SplitSecond(mime_part, str_image_slash), <<";">>)
                ELSE str_png
         IN <<ImageData(b64_data, img_format)>>
    ELSE <<>>

\* data:image/png;base64,XXXX: <<image_data>>, or <<>> without a comma
DataUriImage(url) ==
    IF StrContains(url, <<",">>)
    THEN LET mime_part == SplitHead(url, <<",">>)
             b64_data == SplitRest(url, <<",">>)
             img_format ==
                IF StrContains(mime_part, str_image_slash)
                THEN SplitHead(SplitSecond(mime_part, str_image_slash), <<";">>)
                ELSE str_png
         IN <<ImageData(b64_data, img_format)>>
    ELSE <<>>

\* output.get("base64", output.get("data", ""))
Base64OrData(d) == IF d.base64 # <<>> THEN d.base64[1] ELSE GetOr(d.data, <<>>)

\* the files of one "files" output of the response metadata
RECURSIVE MetadataFiles(_, _, _)
MetadataFiles(a, files, i) ==
    IF i > Len(files) THEN a
    ELSE LET file_info == files[i] IN
         IF StrContains(GetOr(file_info.mime_type, <<>>), kw_image)
         THEN MetadataFiles(
                YieldImage(a, ImageData(
                    GetOr(file_info.file_data, <<>>),
                    SplitLast(GetOr(file_info.mime_type, str_image_png), <<"/">>))),
                files, i + 1)
         ELSE MetadataFiles(a, files, i + 1)

\* one output of the response metadata
MetadataOutput(a, output) ==
    IF output.type = "files" THEN MetadataFiles(a, output.files, 1)
    ELSE IF output.type = "image"
    THEN YieldImage(a, ImageData(Base64OrData(output),
                                 GetOr(output.format, str_png)))
    ELSE a

RECURSIVE MetadataOutputs(_, _, _)
MetadataOutputs(a, outputs, i) ==
    IF i > Len(outputs) THEN a
    ELSE MetadataOutputs(MetadataOutput(a, outputs[i]), outputs, i + 1)

\* OnResponseMetadata that reads the nested and the top-level outputs
OnResponseMetadataBoth(a, resp_meta) ==
    MetadataOutputs(a, resp_meta.code_interpreter_call.outputs \o resp_meta.outputs, 1)

\* response_metadata: the code interpreter's outputs, else the top-level ones
OnResponseMetadata(a, resp_meta) ==
    LET nested == resp_meta.code_interpreter_call.outputs
        outputs == IF nested = <<>> THEN resp_meta.outputs ELSE nested
    IN MetadataOutputs(a, outputs, 1)

\* an image output of a code_interpreter_call block
CodeOutputImage(output) ==
    LET url == GetOr(output.url, <<>>) IN
    IF StartsWith(url, str_data_image) THEN DataUriImage(url)
    ELSE IF Base64OrData(output) # <<>>
    THEN <<ImageData(Base64OrData(output), GetOr(output.format, str_png))>>
    ELSE <<>>

\* the outputs of a code_interpreter_call block, in order
RECURSIVE CodeOutputs(_, _, _)
CodeOutputs(a, outputs, i) ==
    IF i > Len(outputs) THEN a
    ELSE LET found == IF outputs[i].type = "image"
                      THEN CodeOutputImage(outputs[i])
                      ELSE <<>>
         IN IF found # <<>>
            THEN CodeOutputs(YieldImage(a, found[1]), outputs, i + 1)
            ELSE CodeOutputs(a, outputs, i + 1)

\* OnCodeInterpreterCall that shows the status whether or not outputs came
OnCodeInterpreterCallEager(a, block) ==
    LET outputs == block.outputs
        shown == IF ~a.tool_in_progress
                 THEN YieldStatus(a, lbl_running_code)
                 ELSE a
        cleared == IF outputs # <<>> /\ shown.tool_in_progress
                   THEN YieldStatusClear(shown)
                   ELSE shown
    IN CodeOutputs(cleared, outputs, 1)

\* a code_interpreter_call block
OnCodeInterpreterCall(a, block) ==
    LET outputs == block.outputs
        shown == IF ~a.tool_in_progress /\ outputs = <<>>
                 THEN YieldStatus(a, lbl_running_code)
                 ELSE a
        cleared == IF outputs # <<>> /\ shown.tool_in_progress
                   THEN YieldStatusClear(shown)
                   ELSE shown
    IN CodeOutputs(cleared, outputs, 1)

\* OnServerToolCall without the test of tool_in_progress
OnServerToolCallAlways(a, block) ==
    YieldStatus(a, get_tool_status(<<GetOr(block.name, str_tool)>>))

\* OnServerToolCall that shows the status without recording it
OnServerToolCallNoFlag(a, block) ==
    LET tool_name == GetOr(block.name, str_tool) IN
    IF ~a.tool_in_progress
    THEN Yield(a, StatusRec(get_tool_status(<<tool_name>>)))
    ELSE a

\* a server_tool_call block
OnServerToolCall(a, block) ==
    LET tool_name == GetOr(block.name, str_tool) IN
    IF ~a.tool_in_progress
    THEN YieldStatus(a, get_tool_status(<<tool_name>>))
    ELSE a

\* OnServerToolResult without the test of tool_in_progress
OnServerToolResultAlways(a) == YieldStatusClear(a)

\* a server_tool_result block
OnServerToolResult(a) ==
    IF a.tool_in_progress THEN YieldStatusClear(a) ELSE a

\* a text block
OnTextBlock(a, block) ==
    LET text == GetOr(block.text, <<>>) IN
    IF text # <<>> THEN YieldChunk(a, text) ELSE a

\* an image block (from image_generation)
OnImageBlock(a, block) ==
    LET url == GetOr(block.url, <<>>)
        b64 == GetOr(block.base64, <<>>)
    IN
    IF StartsWith(url, str_data_image)
    THEN LET found == DataUriImage(url) IN
         IF found # <<>> THEN YieldImage(a, found[1]) ELSE a
    ELSE IF b64 # <<>>
    THEN YieldImage(a, ImageData(b64, GetOr(block.format, str_png)))
    ELSE a

\* an object-style block (older format)
OnObjectBlock(a, block) ==
    IF block.text # <<>>
    THEN IF block.text[1] # <<>> THEN YieldChunk(a, block.text[1]) ELSE a
    ELSE IF block.type = "image" /\ Base64OrData(block) # <<>>
    THEN YieldImage(a, ImageData(Base64OrData(block), GetOr(block.format, str_png)))
    ELSE a

\* ProcessBlock that treats a reasoning block as text
ProcessBlockShowsReasoning(a, block) ==
    IF block.kind = "dict" /\ block.type \in {"text", "reasoning"}
    THEN OnTextBlock(a, block)
    ELSE a

\* one element of list content
ProcessBlock(a, block) ==
    IF block.kind = "dict"
    THEN CASE block.type = "text" -> OnTextBlock(a, block)
           [] block.type = "reasoning" -> a
           [] block.type = "server_tool_call" -> OnServerToolCall(a, block)
           [] block.type = "server_tool_result" -> OnServerToolResult(a)
           [] block.type = "code_interpreter_call" -> OnCodeInterpreterCall(a, block)
           [] block.type = "image" -> OnImageBlock(a, block)
           [] OTHER -> a
    ELSE IF block.kind = "object" THEN OnObjectBlock(a, block)
    ELSE a

RECURSIVE ProcessBlocks(_, _, _)
ProcessBlocks(a, content, i) ==
    IF i > Len(content) THEN a
    ELSE ProcessBlocks(ProcessBlock(a, content[i]), content, i + 1)

\* OnStrContent that drops a string it fails to decode
OnStrContentDropsBroken(a, content) ==
    IF StartsWith(content, <<"{">>) /\ StrContains(content, str_type_image)
    THEN LET img_data == JsonLoads(content) IN
         IF ~img_data.ok THEN a
         ELSE IF DictGet(img_data.val, str_type) = <<kw_image>>
         THEN YieldImage(a, JsonImageData(img_data.val))
         ELSE YieldChunk(a, content)
    ELSE YieldChunk(a, content)

\* string content: an image when it is a JSON image object, else a chunk
OnStrContent(a, content) ==
    IF StartsWith(content, <<"{">>) /\ StrContains(content, str_type_image)
    THEN LET img_data == JsonLoads(content) IN
         IF img_data.ok /\ DictGet(img_data.val, str_type) = <<kw_image>>
         THEN YieldImage(a, JsonImageData(img_data.val))
         ELSE YieldChunk(a, content)
    ELSE YieldChunk(a, content)

\* bool(content) for string and list content
ContentEmpty(content) ==
    IF content.kind = "str" THEN content.str = <<>> ELSE content.list = <<>>

\* The loop body for one message of the agent's stream.
ProcessToken(a, token) ==
    IF token.type \in {"tool", "function"} THEN OnToolResult(a, token)
    ELSE IF token.tool_calls # <<>>
    THEN OnToolCalls(a, ToolCallNames(token.tool_calls))
    ELSE IF token.additional_kwargs.tool_calls # <<>>
    THEN OnToolCalls(a, KwargsToolCallNames(token.additional_kwargs.tool_calls))
    ELSE LET reset == ResetToolStatus(a) IN
         IF ContentEmpty(token.content) THEN reset
         ELSE LET meta == OnResponseMetadata(reset, token.response_metadata) IN
              IF token.content.kind = "list"
              THEN ProcessBlocks(meta, token.content.list, 1)
              ELSE OnStrContent(meta, token.content.str)

(***************************************************************************)
(* The messages the agent's stream delivers.  A message has a type, the    *)
(* tool calls it declares (tool_calls and additional_kwargs), content (a   *)
(* string or a list of content blocks) and response metadata.              *)
(***************************************************************************)
StrContent(s) == [kind |-> "str", str |-> s]

ListContent(blocks) == [kind |-> "list", list |-> blocks]

NoMetadata == [code_interpreter_call |-> [outputs |-> <<>>], outputs |-> <<>>]

\* an AI message chunk without tool calls or metadata
AIMessage(content) ==
    [type |-> "AIMessageChunk",
     tool_calls |-> <<>>,
     additional_kwargs |-> [tool_calls |-> <<>>],
     content |-> content,
     response_metadata |-> NoMetadata]

\* a tool result
ToolMessage(type, content) == [AIMessage(content) EXCEPT !.type = type]

\* a dict content block with none of the optional keys
Block(type) ==
    [kind |-> "dict", type |-> type, text |-> <<>>, name |-> <<>>, outputs |-> <<>>,
     url |-> <<>>, base64 |-> <<>>, data |-> <<>>, format |-> <<>>]

TextBlock(text) == [Block("text") EXCEPT !.text = <<text>>]

ServerToolCall(name) == [Block("server_tool_call") EXCEPT !.name = <<name>>]

CodeInterpreterCall(outputs) ==
    [Block("code_interpreter_call") EXCEPT !.outputs = outputs]

\* an object-style block with none of the optional attributes
ObjectBlock(type) == [Block(type) EXCEPT !.kind = "object"]

\* an output of the code interpreter with none of the optional keys
Output(type) ==
    [type |-> type, url |-> <<>>, base64 |-> <<>>, data |-> <<>>, format |-> <<>>,
     files |-> <<>>]

FileInfo(file_data, mime_type) == [file_data |-> file_data, mime_type |-> mime_type]

ToolCall(name) == [name |-> <<name>>]

KwargsToolCall(name) == [function |-> [name |-> <<name>>]]

\* blocks that carry text under a tag that is not shown
ReasoningBlock == [Block("reasoning") EXCEPT !.text = <<txt_hi>>]

UnknownBlock == [Block("refusal") EXCEPT !.text = <<txt_ok>>]

QuietToken ==
    AIMessage(ListContent(<<ReasoningBlock, UnknownBlock, Block("server_tool_result")>>))

StringTokens ==
    { AIMessage(StrContent(txt_hi)),
      AIMessage(StrContent(<<>>)),
      AIMessage(StrContent(json_image_bare)),
      AIMessage(StrContent(json_broken)),
      [AIMessage(StrContent(txt_ok)) EXCEPT
          !.response_metadata.code_interpreter_call.outputs =
              << [Output("files") EXCEPT !.files =
                     << FileInfo(<<b64_a>>, <<mime_jpeg>>),
                        FileInfo(<<b64_b>>, <<mime_csv>>) >>] >>],
      [AIMessage(StrContent(txt_ok)) EXCEPT
          !.response_metadata.outputs =
              << [Output("image") EXCEPT !.data = <<b64_b>>] >>] }

ToolCallTokens ==
    { [AIMessage(StrContent(<<>>)) EXCEPT
          !.tool_calls = <<ToolCall(kw_execute_sales_query)>>],
      [AIMessage(StrContent(txt_hi)) EXCEPT
          !.tool_calls = <<ToolCall(name_get_weather), ToolCall(kw_generate_image)>>],
      [AIMessage(StrContent(<<>>)) EXCEPT
          !.additional_kwargs.tool_calls = <<KwargsToolCall(name_Web_Search)>>],
      [AIMessage(StrContent(<<>>)) EXCEPT
          !.additional_kwargs.tool_calls = <<[function |-> [name |-> <<>>]]>>] }

ToolResultTokens ==
    { ToolMessage("tool", StrContent(json_image)),
      ToolMessage("tool", StrContent(txt_rows)),
      ToolMessage("function", StrContent(json_text)) }

BlockTokens ==
    { AIMessage(ListContent(<<TextBlock(txt_hi), Block("reasoning"), TextBlock(txt_ok)>>)),
      QuietToken,
      AIMessage(ListContent(<<ServerToolCall(kw_web_search),
                              Block("server_tool_result")>>)),
      AIMessage(ListContent(<<ServerToolCall(kw_semantic_search),
                              CodeInterpreterCall(<<>>), TextBlock(txt_ok)>>)),
      AIMessage(ListContent(<<CodeInterpreterCall(<<>>),
                              ServerToolCall(name_get_weather)>>)),
      AIMessage(ListContent(<<CodeInterpreterCall(
          << [Output("image") EXCEPT !.url = <<uri_jpeg>>],
             [Output("image") EXCEPT !.base64 = <<b64_b>>],
             [Output("files") EXCEPT !.files = <<FileInfo(<<b64_a>>, <<mime_jpeg>>)>>],
             [Output("image") EXCEPT !.url = <<uri_no_comma>>] >>)>>)),
      AIMessage(ListContent(<<[Block("image") EXCEPT !.url = <<uri_jpeg>>],
                              [Block("image") EXCEPT !.base64 = <<b64_b>>,
                                                     !.format = <<fmt_jpeg>>],
                              Block("image")>>)),
      AIMessage(ListContent(<<[ObjectBlock("text") EXCEPT !.text = <<txt_hi>>],
                              [ObjectBlock("image") EXCEPT !.data = <<b64_a>>]>>)) }

\* the messages agent.astream may deliver
Tokens == StringTokens \cup ToolCallTokens \cup ToolResultTokens \cup BlockTokens

NoToken == [type |-> "none"]

(***************************************************************************)
(* chat_endpoint up to its return: the response for a request body.        *)
(***************************************************************************)
JSONResponse(status_code, error) ==
    [kind |-> "json", status_code |-> status_code, error |-> error]

StreamingResponse == [kind |-> "stream", status_code |-> 200]

NoResponse == [kind |-> "none"]

HistoryEntry(role, content) == [role |-> role, content |-> content]

\* msg["role"], msg["content"] raise KeyError on an entry lacking the key
HistoryRaises(history) ==
    \E i \in 1..Len(history) :
        history[i].role = <<>> \/ history[i].content = <<>>

\* body: what request.json() finds; message, history: req_body.get(...)
Request(body, message, history) ==
    [body |-> body, message |-> message, history |-> history]

Histories ==
    { <<HistoryEntry(<<"user">>, <<txt_hi>>), HistoryEntry(<<"assistant">>, <<txt_ok>>)>>,
      <<HistoryEntry(<<"user">>, <<txt_hi>>), HistoryEntry(<<>>, <<txt_ok>>)>>,
      <<HistoryEntry(<<"user">>, <<>>)>> }

\* the request bodies a client may post
Requests ==
    { Request("invalid_json", <<>>, <<>>), Request("not_object", <<>>, <<>>) }
    \cup { Request("object", m, <<>>) : m \in {<<>>, <<<<>>>>} }
    \cup { Request("object", <<txt_hi>>, h) : h \in Histories }

\* setup_ok: the credential, the tools, the model and the agent were built
\* without an exception
chat_endpoint(req, setup_ok) ==
    IF req.body = "invalid_json"
        THEN JSONResponse(400, "JSONDecodeError")
    ELSE IF req.body # "object"
        THEN JSONResponse(500, "Internal server error")
    ELSE IF req.message = <<>> \/ req.message[1] = <<>>
        THEN JSONResponse(400, "message is required")
    ELSE IF ~setup_ok \/ HistoryRaises(req.history)
        THEN JSONResponse(500, "Internal server error")
    ELSE StreamingResponse

(***************************************************************************)
(* State.                                                                  *)
(***************************************************************************)
MaxEvents == 3

VARIABLES
    request,            \* the request body handled, NoRequest before
    response,           \* what chat_endpoint returned, NoResponse before
    response_started,   \* the streaming response has sent its status line
    gen,                \* where generate_stream stands
    upstream,           \* agent.astream: "idle", "open", "exhausted", "raised"
    pulled,             \* messages agent.astream has delivered
    token,              \* the message of the current loop iteration
    pending,            \* the yields of the current iteration still ahead
    full_response,      \* locals of generate_stream
    images,
    tool_in_progress,
    out,                \* the records written to the response body, in order
    before,             \* history: the locals and the number of records
                        \* written when the current message was pulled
    status_call,        \* a call of get_tool_status on its own
    mcp,                \* the MCP server: its database and the tool calls made
    sessions            \* generators of requests served at the same time

vars ==
    <<request, response, response_started, gen, upstream, pulled, token, pending,
      full_response, images, tool_in_progress, out, before, status_call, mcp,
      sessions>>

\* the chat endpoint, its generator and the history of the current message
stream ==
    <<request, response, response_started, gen, upstream, pulled, token, pending,
      full_response, images, tool_in_progress, out, before>>

\* what the chat endpoint and its generator never touch
others == <<status_call, mcp, sessions>>

NoCall == [called |-> FALSE]

NoServer == [running |-> FALSE]

NoSessions == <<>>

Before(fr, im, tip, n) ==
    [full_response |-> fr, images |-> im, tool_in_progress |-> tip, n |-> n]

NoRequest == [body |-> "none"]

\* no request has arrived
StreamIdle ==
    /\ request = NoRequest
    /\ response = NoResponse
    /\ response_started = FALSE
    /\ gen = "none"
    /\ upstream = "idle"
    /\ pulled = 0
    /\ token = NoToken
    /\ pending = <<>>
    /\ full_response = <<>>
    /\ images = <<>>
    /\ tool_in_progress = FALSE
    /\ out = <<>>
    /\ before = Before(<<>>, <<>>, FALSE, 0)

Init ==
    /\ StreamIdle
    /\ status_call = NoCall
    /\ mcp = NoServer
    /\ sessions = NoSessions

\* the generator runs to the yield y and is suspended there
SuspendAt(y, rest) ==
    /\ out' = Append(out, y.rec)
    /\ full_response' = y.full_response
    /\ images' = y.images
    /\ tool_in_progress' = y.tool_in_progress
    /\ pending' = rest
    /\ gen' = "yielded"

\* FinalYields with a status clear written after the final message
FinalYieldsThenClear(fr, im) == <<DoneRec(fr, im), StatusRec(<<>>)>>

\* the records the generator yields once agent.astream is exhausted
FinalYields(fr, im) == <<DoneRec(fr, im)>>

\* ErrorYields of a generator that sends the final message from a finally
\* clause
ErrorYieldsDone(fr, im) == <<DoneRec(fr, im)>>

\* the records the generator yields when agent.astream raises: the loop has
\* no handler, the exception leaves the generator
ErrorYields(fr, im) == <<>>

\* POST /api/chat: the handler up to its return statement
ChatEndpoint(req, setup_ok) ==
    /\ response = NoResponse
    /\ request' = req
    /\ response' = chat_endpoint(req, setup_ok)
    /\ gen' = IF chat_endpoint(req, setup_ok) = StreamingResponse
              THEN "created" ELSE gen
    /\ UNCHANGED <<response_started, upstream, pulled, token, pending,
                   full_response, images, tool_in_progress, out>>
    /\ UNCHANGED <<before, others>>

\* the server starts the streaming response: status line and headers go out
\* before the body iterator is touched
StartResponse ==
    /\ response = StreamingResponse
    /\ ~response_started
    /\ response_started' = TRUE
    /\ UNCHANGED <<request, response, gen, upstream, pulled, token, pending,
                   full_response, images, tool_in_progress, out>>
    /\ UNCHANGED <<before, others>>

\* the first resumption: the locals are set and agent.astream is awaited
StartGenerator ==
    /\ response_started
    /\ gen = "created"
    /\ gen' = "awaiting"
    /\ upstream' = "open"
    /\ full_response' = <<>>
    /\ images' = <<>>
    /\ tool_in_progress' = FALSE
    /\ UNCHANGED <<request, response, response_started, pulled, token, pending, out>>
    /\ UNCHANGED <<before, others>>

\* Deliver that pulls the next message while a record is still being written
DeliverEager(t) ==
    /\ gen \in {"awaiting", "yielded"}
    /\ pulled < MaxEvents
    /\ pulled' = pulled + 1
    /\ token' = t
    /\ LET ys == ProcessToken(Locals(full_response, images, tool_in_progress), t).ys
       IN IF ys = <<>>
          THEN /\ gen' = "awaiting"
               /\ pending' = <<>>
               /\ UNCHANGED <<full_response, images, tool_in_progress, out>>
          ELSE SuspendAt(Head(ys), Tail(ys))
    /\ UNCHANGED <<request, response, response_started, upstream>>
    /\ before' = Before(full_response, images, tool_in_progress, Len(out))
    /\ UNCHANGED others

\* agent.astream delivers a message; the loop body runs to its first yield,
\* or to the next await when it yields nothing
Deliver(t) ==
    /\ gen = "awaiting"
    /\ pulled < MaxEvents
    /\ pulled' = pulled + 1
    /\ token' = t
    /\ LET ys == ProcessToken(Locals(full_response, images, tool_in_progress), t).ys
       IN IF ys = <<>>
          THEN UNCHANGED <<gen, pending, full_response, images, tool_in_progress, out>>
          ELSE SuspendAt(Head(ys), Tail(ys))
    /\ UNCHANGED <<request, response, response_started, upstream>>
    /\ before' = Before(full_response, images, tool_in_progress, Len(out))
    /\ UNCHANGED others

\* the record was written and the generator is resumed: it runs to the next
\* yield of the iteration, or to the await of the next message
Resume ==
    /\ gen = "yielded"
    /\ IF pending = <<>>
       THEN /\ gen' = "awaiting"
            /\ UNCHANGED <<pending, full_response, images, tool_in_progress, out>>
       ELSE SuspendAt(Head(pending), Tail(pending))
    /\ UNCHANGED <<request, response, response_started, upstream, pulled, token>>
    /\ UNCHANGED <<before, others>>

\* agent.astream ends: the final complete message is yielded
Exhaust ==
    /\ gen = "awaiting"
    /\ upstream' = "exhausted"
    /\ out' = out \o FinalYields(full_response, images)
    /\ gen' = "yielded_final"
    /\ UNCHANGED <<request, response, response_started, pulled, token, pending,
                   full_response, images, tool_in_progress>>
    /\ UNCHANGED <<before, others>>

\* resumed after the final yield, the generator returns
Return ==
    /\ gen = "yielded_final"
    /\ gen' = "returned"
    /\ UNCHANGED <<request, response, response_started, upstream, pulled, token,
                   pending, full_response, images, tool_in_progress, out>>
    /\ UNCHANGED <<before, others>>

\* agent.astream raises while the generator awaits it
Raise ==
    /\ gen = "awaiting"
    /\ upstream' = "raised"
    /\ out' = out \o ErrorYields(full_response, images)
    /\ gen' = "raised"
    /\ UNCHANGED <<request, response, response_started, pulled, token, pending,
                   full_response, images, tool_in_progress>>
    /\ UNCHANGED <<before, others>>

Next ==
    \/ \E req \in Requests, setup_ok \in BOOLEAN : ChatEndpoint(req, setup_ok)
    \/ StartResponse
    \/ StartGenerator
    \/ \E t \in Tokens : Deliver(t)
    \/ Resume
    \/ Exhaust
    \/ Return
    \/ Raise

Spec == Init /\ [][Next]_vars

(***************************************************************************)
(* get_tool_status called on its own, on lists of up to MaxNames names.    *)
(***************************************************************************)
MaxNames == 2

ToolNames ==
    { kw_execute_sales_query, kw_generate_image, name_unknown_tool_x, <<>>,
      kw_semantic_search, kw_get_table_schemas, kw_get_current_utc_date,
      name_Web_Search, kw_code_interpreter, name_customer_lookup, name_sales_report,
      name_web_search_image, name_get_weather, name_Get_Weather }

NameLists == UNION {[1..k -> ToolNames] : k \in 0..MaxNames}

StatusCall(tool_names) ==
    [called |-> TRUE, tool_names |-> tool_names, returned |-> FALSE,
     status_msg |-> <<>>]

InitToolStatus ==
    /\ StreamIdle
    /\ status_call \in {StatusCall(tool_names) : tool_names \in NameLists}
    /\ mcp = NoServer
    /\ sessions = NoSessions

\* status_msg = get_tool_status(tool_names)
GetToolStatus ==
    /\ status_call.called
    /\ ~status_call.returned
    /\ status_call' = [status_call EXCEPT
                          !.returned = TRUE,
                          !.status_msg = get_tool_status(status_call.tool_names)]
    /\ UNCHANGED <<stream, mcp, sessions>>

SpecToolStatus == InitToolStatus /\ [][GetToolStatus]_vars

(***************************************************************************)
(* The same endpoint and generator on streams of messages chosen for the   *)
(* cases of single messages: data URIs, JSON strings, tool announcements.  *)
(***************************************************************************)
DataUris == {uri_abcd, uri_svg, uri_two_commas}

ImageBlockToken(url) ==
    AIMessage(ListContent(<<[Block("image") EXCEPT !.url = <<url>>]>>))

CodeImageToken(url) ==
    AIMessage(ListContent(
        <<CodeInterpreterCall(<<[Output("image") EXCEPT !.url = <<url>>]>>)>>))

DataUriTokens ==
    {ImageBlockToken(url) : url \in DataUris} \cup {CodeImageToken(url) : url \in DataUris}

\* plain strings: text, JSON objects with and without spaces, broken JSON
ProbeStrings ==
    {txt_hello, json_image, json_image_compact, json_text, str_not_valid, json_broken}

StringProbeTokens == {AIMessage(StrContent(s)) : s \in ProbeStrings}

\* a server-side tool call and its result in one message, without text
ServerPairToken(name) ==
    AIMessage(ListContent(<<ServerToolCall(name), Block("server_tool_result")>>))

ServerPairTokens ==
    {ServerPairToken(name) : name \in {kw_web_search, name_get_weather}}

\* messages that declare tool calls, with and without content and metadata
ToolCallProbeTokens ==
    { [AIMessage(StrContent(txt_hello)) EXCEPT
          !.tool_calls = <<ToolCall(kw_execute_sales_query)>>,
          !.response_metadata.outputs = <<[Output("image") EXCEPT !.data = <<b64_b>>]>>],
      [AIMessage(StrContent(<<>>)) EXCEPT
          !.tool_calls = <<ToolCall(name_unknown_tool_x), ToolCall(kw_generate_image)>>],
      [AIMessage(ListContent(<<TextBlock(txt_hi)>>)) EXCEPT
          !.additional_kwargs.tool_calls = <<KwargsToolCall(name_Web_Search)>>] }

ProbeTokens ==
    DataUriTokens \cup StringProbeTokens \cup ServerPairTokens \cup ToolCallProbeTokens

NextProbe ==
    \/ \E req \in Requests, setup_ok \in BOOLEAN : ChatEndpoint(req, setup_ok)
    \/ StartResponse
    \/ StartGenerator
    \/ \E t \in ProbeTokens : Deliver(t)
    \/ Resume
    \/ Exhaust
    \/ Return
    \/ Raise

SpecProbe == Init /\ [][NextProbe]_vars

(***************************************************************************)
(* The MCP server's execute_sales_query tool (src/mcp/app.py): a query is  *)
(* validated and then passed, as it came, to the database provider.        *)
(***************************************************************************)
\* str.upper() on one character
UpperChar(c) ==
    IF \E i \in 1..Len(LowerChars) : LowerChars[i] = c
    THEN UpperChars[CHOOSE i \in 1..Len(LowerChars) : LowerChars[i] = c]
    ELSE c

\* str.upper()
StrUpper(s) == [i \in 1..Len(s) |-> UpperChar(s[i])]

\* str.lstrip() of blanks
RECURSIVE LStrip(_)
LStrip(s) == IF s # <<>> /\ Head(s) = " " THEN LStrip(Tail(s)) ELSE s

\* str.rstrip() of blanks
RECURSIVE RStrip(_)
RStrip(s) ==
    IF s # <<>> /\ s[Len(s)] = " " THEN RStrip(SubSeq(s, 1, Len(s) - 1)) ELSE s

\* str.strip()
Strip(s) == RStrip(LStrip(s))

\* s.endswith(suffix)
EndsWith(s, suffix) == MatchAt(s, suffix, Len(s) - Len(suffix) + 1)

dangerous_patterns ==
    << pat_dashes, pat_block, pat_DROP, pat_DELETE, pat_INSERT, pat_UPDATE, pat_ALTER,
       pat_CREATE, pat_TRUNCATE, pat_GRANT, pat_REVOKE, pat_EXEC, pat_EXECUTE >>

Valid == [ok |-> TRUE]

ToolError(message, detail) == [ok |-> FALSE, message |-> message, detail |-> detail]

\* the first dangerous pattern in normalized_upper from pattern i on; 0 without one
RECURSIVE FirstDangerous(_, _)
FirstDangerous(normalized_upper, i) ==
    IF i > Len(dangerous_patterns) THEN 0
    ELSE IF StrContains(normalized_upper, dangerous_patterns[i]) THEN i
    ELSE FirstDangerous(normalized_upper, i + 1)

\* query.strip() without one trailing semicolon, stripped again
Normalized(query) ==
    LET normalized == Strip(query) IN
    IF EndsWith(normalized, <<";">>)
    THEN Strip(SubSeq(normalized, 1, Len(normalized) - 1))
    ELSE normalized

\* validate_sql_query without the test for several statements
validate_sql_queryOneStatement(query) ==
    LET normalized == Normalized(query)
        normalized_upper == StrUpper(normalized)
        found == FirstDangerous(normalized_upper, 1)
    IN
    IF ~StartsWith(normalized_upper, sql_SELECT)
    THEN ToolError("Only SELECT queries are allowed", <<>>)
    ELSE IF found # 0
    THEN ToolError("Query contains forbidden pattern: ", Strip(dangerous_patterns[found]))
    ELSE Valid

\* validate_sql_query: Valid, or the ToolError it raises
validate_sql_query(query) ==
    LET normalized == Normalized(query)
        normalized_upper == StrUpper(normalized)
        found == FirstDangerous(normalized_upper, 1)
    IN
    IF ~StartsWith(normalized_upper, sql_SELECT)
    THEN ToolError("Only SELECT queries are allowed", <<>>)
    ELSE IF StrContains(normalized, <<";">>)
    THEN ToolError("Multiple SQL statements are not allowed", <<>>)
    ELSE IF found # 0
    THEN ToolError("Query contains forbidden pattern: ", Strip(dangerous_patterns[found]))
    ELSE Valid

\* one call of the tool: the query, what db_provider.execute_query was called
\* with (nothing, or the query), and how the call ended
Call(query, executed, outcome) ==
    [query |-> query, executed |-> executed, outcome |-> outcome]

\* execute_sales_query(query) with db_provider set or None and a database
\* that answers or raises
execute_sales_query(query, db_provider, db_raises) ==
    IF ~db_provider
    THEN Call(query, <<>>,
              ToolError("Database not configured. Set POSTGRES_URL environment variable.",
                        <<>>))
    ELSE IF ~validate_sql_query(query).ok
    THEN Call(query, <<>>, validate_sql_query(query))
    ELSE IF db_raises
    THEN Call(query, <<query>>, ToolError("Query execution failed: ", <<>>))
    ELSE Call(query, <<query>>, Valid)

MaxCalls == 2

Queries ==
    { q_select_one, q_padded, q_two_selects, q_stacked_drop, q_drop, q_update,
      q_comment, q_block_comment, q_into_delete, q_updated_at, q_two_semicolons,
      q_semicolon, q_execute, <<>> }

Server(db_provider, calls) == [running |-> TRUE, db_provider |-> db_provider, calls |-> calls]

\* the server is up, with the database configured or not
InitSql ==
    /\ StreamIdle
    /\ status_call = NoCall
    /\ mcp \in {Server(db_provider, <<>>) : db_provider \in BOOLEAN}
    /\ sessions = NoSessions

ExecuteSalesQuery(query, db_raises) ==
    /\ mcp.running
    /\ Len(mcp.calls) < MaxCalls
    /\ mcp' = [mcp EXCEPT
                 !.calls = Append(@, execute_sales_query(query, mcp.db_provider, db_raises))]
    /\ UNCHANGED <<stream, status_call, sessions>>

NextSql == \E query \in Queries, db_raises \in BOOLEAN : ExecuteSalesQuery(query, db_raises)

SpecSql == InitSql /\ [][NextSql]_vars

(***************************************************************************)
(* Two requests streamed at the same time.  Each call of chat_endpoint     *)
(* defines its own generate_stream, whose full_response, images and        *)
(* tool_in_progress are locals of that generator; the steps of the two     *)
(* generators interleave at their awaits and yields.                       *)
(***************************************************************************)
MaxSessionEvents == 2

SessionIds == {1, 2}

\* a generator that has not been started
Session ==
    [gen |-> "none", delivered |-> <<>>, pending |-> <<>>, full_response |-> <<>>,
     images |-> <<>>, tool_in_progress |-> FALSE, out |-> <<>>]

SessionTokens ==
    { [AIMessage(StrContent(<<>>)) EXCEPT
          !.tool_calls = <<ToolCall(kw_execute_sales_query)>>],
      ImageBlockToken(uri_abcd),
      AIMessage(ListContent(<<TextBlock(txt_ok), ServerToolCall(kw_web_search)>>)) }

\* SessionLocals with tool_in_progress kept in one place for all generators
SessionLocalsSharedFlag(s, i) ==
    Locals(s[i].full_response, s[i].images,
           \E j \in DOMAIN s : s[j].tool_in_progress)

\* the locals of generator i
SessionLocals(s, i) ==
    Locals(s[i].full_response, s[i].images, s[i].tool_in_progress)

\* generator s runs to the yield y and is suspended there
SessionSuspendAt(s, y, rest) ==
    [s EXCEPT !.out = Append(@, y.rec),
              !.full_response = y.full_response,
              !.images = y.images,
              !.tool_in_progress = y.tool_in_progress,
              !.pending = rest,
              !.gen = "yielded"]

InitSessions ==
    /\ StreamIdle
    /\ status_call = NoCall
    /\ mcp = NoServer
    /\ sessions = [i \in SessionIds |-> Session]

\* the response of request i starts iterating its generator
SessionStart(i) ==
    /\ sessions[i].gen = "none"
    /\ sessions' = [sessions EXCEPT ![i].gen = "awaiting"]
    /\ UNCHANGED <<stream, status_call, mcp>>

\* the agent of request i delivers the message t
SessionDeliver(i, t) ==
    /\ sessions[i].gen = "awaiting"
    /\ Len(sessions[i].delivered) < MaxSessionEvents
    /\ LET ys == ProcessToken(SessionLocals(sessions, i), t).ys
           s == [sessions[i] EXCEPT !.delivered = Append(@, t)]
       IN sessions' = [sessions EXCEPT
                          ![i] = IF ys = <<>> THEN s
                                 ELSE SessionSuspendAt(s, Head(ys), Tail(ys))]
    /\ UNCHANGED <<stream, status_call, mcp>>

\* the record of generator i was written and the generator is resumed
SessionResume(i) ==
    /\ sessions[i].gen = "yielded"
    /\ sessions' = [sessions EXCEPT
                       ![i] = IF sessions[i].pending = <<>>
                              THEN [sessions[i] EXCEPT !.gen = "awaiting"]
                              ELSE SessionSuspendAt(sessions[i], Head(sessions[i].pending),
                                                    Tail(sessions[i].pending))]
    /\ UNCHANGED <<stream, status_call, mcp>>

\* the agent's stream of request i ends: the final message is yielded
SessionExhaust(i) ==
    /\ sessions[i].gen = "awaiting"
    /\ sessions' = [sessions EXCEPT
                       ![i].out = @ \o FinalYields(sessions[i].full_response,
                                                   sessions[i].images),
                       ![i].gen = "yielded_final"]
    /\ UNCHANGED <<stream, status_call, mcp>>

\* generator i returns
SessionReturn(i) ==
    /\ sessions[i].gen = "yielded_final"
    /\ sessions' = [sessions EXCEPT ![i].gen = "returned"]
    /\ UNCHANGED <<stream, status_call, mcp>>

NextSessions ==
    \E i \in SessionIds :
        \/ SessionStart(i)
        \/ \E t \in SessionTokens : SessionDeliver(i, t)
        \/ SessionResume(i)
        \/ SessionExhaust(i)
        \/ SessionReturn(i)

SpecSessions == InitSessions /\ [][NextSessions]_vars

(***************************************************************************)
(* The same endpoint and generator on streams of messages chosen for the   *)
(* cases of tool results, code interpreter blocks and response metadata.   *)
(***************************************************************************)
ToolResultProbeTokens ==
    { [AIMessage(StrContent(<<>>)) EXCEPT
          !.tool_calls = <<ToolCall(kw_execute_sales_query)>>],
      ToolMessage("tool", StrContent(json_image)),
      ToolMessage("function", StrContent(json_image_data)),
      ToolMessage("tool", StrContent(json_image_empty)),
      ToolMessage("tool", StrContent(txt_rows)) }

\* a code interpreter call, alone or after a server tool call in the same
\* message, before and after its outputs have come
CodeBlockTokens ==
    { AIMessage(ListContent(<<CodeInterpreterCall(<<>>)>>)),
      AIMessage(ListContent(<<ServerToolCall(name_get_weather), CodeInterpreterCall(<<>>)>>)),
      CodeImageToken(uri_abcd),
      AIMessage(ListContent(
          <<ServerToolCall(name_get_weather),
            CodeInterpreterCall(<<[Output("image") EXCEPT !.base64 = <<b64_b>>],
                                  [Output("image") EXCEPT !.url = <<uri_abcd>>]>>)>>)) }

\* messages with response metadata: nested and top-level outputs, content
\* that yields records of its own, and empty content
MetadataTokens ==
    { [AIMessage(StrContent(txt_ok)) EXCEPT
          !.response_metadata.code_interpreter_call.outputs =
              << [Output("files") EXCEPT !.files =
                     << FileInfo(<<b64_a>>, <<mime_jpeg>>),
                        FileInfo(<<b64_b>>, <<mime_csv>>) >>] >>,
          !.response_metadata.outputs = << [Output("image") EXCEPT !.data = <<b64_b>>] >>],
      [AIMessage(ListContent(<<TextBlock(txt_hi),
                               [Block("image") EXCEPT !.base64 = <<b64_b>>]>>)) EXCEPT
          !.response_metadata.outputs =
              << [Output("image") EXCEPT !.base64 = <<b64_a>>, !.format = <<fmt_jpeg>>] >>],
      [AIMessage(StrContent(<<>>)) EXCEPT
          !.response_metadata.outputs = << [Output("image") EXCEPT !.data = <<b64_b>>] >>] }

ImageProbeTokens ==
    ToolResultProbeTokens \cup CodeBlockTokens \cup MetadataTokens
        \cup {ImageBlockToken(uri_no_format)}

NextImages ==
    \/ \E req \in Requests, setup_ok \in BOOLEAN : ChatEndpoint(req, setup_ok)
    \/ StartResponse
    \/ StartGenerator
    \/ \E t \in ImageProbeTokens : Deliver(t)
    \/ Resume
    \/ Exhaust
    \/ Return
    \/ Raise

SpecImages == Init /\ [][NextImages]_vars

(***************************************************************************)
(* The records of the output, by kind.                                     *)
(***************************************************************************)
IsChunk(r) == "chunk" \in DOMAIN r

IsStatusKind(r) == "status" \in DOMAIN r

IsStatus(r) == IsStatusKind(r) /\ r.status # <<>>

IsStatusClear(r) == IsStatusKind(r) /\ r.status = <<>>

IsImage(r) == "image" \in DOMAIN r

IsDone(r) == "message" \in DOMAIN r \/ "done" \in DOMAIN r

\* the final record as documented: message, role = "assistant", images, done
IsDoneRecord(r) ==
    /\ DOMAIN r = {"message", "role", "images", "done"}
    /\ r.role = str_assistant
    /\ r.done = TRUE

IsErrorRecord(r) == DOMAIN r = {"error", "done"} /\ r.done = TRUE

\* the concatenation of the chunks among the first n records of s
RECURSIVE ChunkText(_, _)
ChunkText(s, n) ==
    IF n = 0 THEN <<>>
    ELSE IF IsChunk(s[n]) THEN ChunkText(s, n - 1) \o s[n].chunk
    ELSE ChunkText(s, n - 1)

\* the images among the first n records of s, in order
RECURSIVE ImageList(_, _)
ImageList(s, n) ==
    IF n = 0 THEN <<>>
    ELSE IF IsImage(s[n]) THEN Append(ImageList(s, n - 1), s[n].image)
    ELSE ImageList(s, n - 1)

Positions(P(_)) == {i \in 1..Len(out) : P(out[i])}

(***************************************************************************)
(* C1: once the agent's stream is exhausted without raising, the output    *)
(* holds exactly one final record (message, role "assistant", images,      *)
(* done = true), and a final record is always the last record written:     *)
(* no chunk, status or image follows it.                                   *)
(***************************************************************************)
C1_ExactlyOneDoneAndLast ==
    /\ \A i \in 1..Len(out) : IsDone(out[i]) => i = Len(out) /\ IsDoneRecord(out[i])
    /\ upstream = "exhausted" =>
          /\ out # <<>>
          /\ IsDoneRecord(out[Len(out)])
          /\ Cardinality(Positions(IsDone)) = 1

\* the stream ran dry after three messages that wrote chunks, a status and an
\* image, and the generator has returned
C1_Witness ==
    /\ gen = "returned"
    /\ upstream = "exhausted"
    /\ pulled = MaxEvents
    /\ Positions(IsChunk) # {}
    /\ Positions(IsStatus) # {}
    /\ Positions(IsImage) # {}
    /\ IsDoneRecord(out[Len(out)])

(***************************************************************************)
(* C2: full_response is at every moment the concatenation of the chunks    *)
(* written so far, and the message of the final record is the              *)
(* concatenation, in order, of the chunks written before it.               *)
(***************************************************************************)
C2_MessageIsChunkConcatenation ==
    /\ full_response = ChunkText(out, Len(out))
    /\ \A i \in 1..Len(out) :
          IsDone(out[i]) => out[i].message = ChunkText(out, i - 1)

\* a final record after chunks from two different messages
C2_Witness ==
    /\ out # <<>>
    /\ IsDone(out[Len(out)])
    /\ Cardinality(Positions(IsChunk)) >= 3
    /\ \E i, j \in Positions(IsChunk) : out[i].chunk # out[j].chunk
    /\ out[Len(out)].message = ChunkText(out, Len(out) - 1)

(***************************************************************************)
(* C3: images is at every moment the list of the image records written so  *)
(* far (none written without being appended, none appended without being   *)
(* written), and the images of the final record are the image records      *)
(* written before it, in order, whichever path found them.                 *)
(***************************************************************************)
C3_ImagesAreImageRecords ==
    /\ images = ImageList(out, Len(out))
    /\ \A i \in 1..Len(out) :
          IsDone(out[i]) => out[i].images = ImageList(out, i - 1)

\* a final record after images found in a tool result, in string content and
\* in list content (three different messages)
C3_Witness ==
    /\ out # <<>>
    /\ IsDone(out[Len(out)])
    /\ Len(out[Len(out)].images) >= 4
    /\ \E i, j \in Positions(IsImage) : out[i].image # out[j].image
    /\ Positions(IsChunk) = {}

(***************************************************************************)
(* C4: between any two status records with a non-empty status there is a   *)
(* status record with the empty status (a clear).                          *)
(***************************************************************************)
C4_ClearBetweenStatuses ==
    \A i, j \in Positions(IsStatus) :
        i < j => \E k \in Positions(IsStatusClear) : i < k /\ k < j

\* three statuses were written, from different sources, with clears between
C4_Witness ==
    /\ Cardinality(Positions(IsStatus)) >= 3
    /\ Cardinality({out[i].status : i \in Positions(IsStatus)}) >= 3

(***************************************************************************)
(* C5: a clear is written only while a status is showing: the nearest      *)
(* status record before a clear exists and is a non-empty status, so the   *)
(* first status record of a stream is a status and no two clears follow    *)
(* one another without a status between them.                              *)
(***************************************************************************)
C5_ClearOnlyAfterStatus ==
    \A j \in Positions(IsStatusClear) :
        \E i \in Positions(IsStatus) :
            /\ i < j
            /\ \A k \in Positions(IsStatusClear) : ~(i < k /\ k < j)

\* two clears were written
C5_Witness == Cardinality(Positions(IsStatusClear)) >= 2

(***************************************************************************)
(* C6: whatever the locals of the generator, a reasoning block and a block *)
(* with an unrecognized tag yield nothing and change nothing, and a        *)
(* server_tool_result block yields no chunk and leaves full_response       *)
(* alone.                                                                  *)
(***************************************************************************)
C6_QuietBlocks ==
    LET a == Locals(full_response, images, tool_in_progress)
        result == ProcessBlock(a, Block("server_tool_result"))
    IN /\ \A b \in {ReasoningBlock, Block("reasoning"), UnknownBlock} :
             ProcessBlock(a, b) = a
       /\ result.full_response = a.full_response
       /\ \A i \in 1..Len(result.ys) : ~IsChunk(result.ys[i].rec)

\* a message of a reasoning, an unrecognized and a server_tool_result block
\* was processed while a status was showing: the clear is all it wrote
C6_Witness ==
    /\ token = QuietToken
    /\ gen = "awaiting"
    /\ pulled = 2
    /\ Len(out) = 2
    /\ IsStatus(out[1])
    /\ IsStatusClear(out[2])
    /\ full_response = <<>>

(***************************************************************************)
(* C7: when the agent's stream raises after at least one record has been   *)
(* written, the last record of the output is a terminal error record       *)
(* {error, done: true}.                                                    *)
(***************************************************************************)
C7_ErrorRecordAfterFailure ==
    (upstream = "raised" /\ out # <<>>) => IsErrorRecord(out[Len(out)])

(***************************************************************************)
(* C8: a stream whose upstream raised carries no final record.             *)
(***************************************************************************)
C8_NoDoneAfterFailure ==
    upstream = "raised" => Positions(IsDone) = {}

\* the agent's stream raised after records had been written
C8_Witness ==
    /\ upstream = "raised"
    /\ gen = "raised"
    /\ Len(out) >= 2

(***************************************************************************)
(* C9: when the first pull from the agent's stream raises, the response is *)
(* a JSON error response and no streaming response was started.            *)
(***************************************************************************)
C9_ErrorResponseOnEarlyFailure ==
    (upstream = "raised" /\ pulled = 0) =>
        (response.kind = "json" /\ ~response_started)

(***************************************************************************)
(* C10: a request of invalid shape (a body that is not JSON, a missing or  *)
(* empty message, a history entry without role or content) gets a 4xx      *)
(* response, no stream is started and the agent's stream is never          *)
(* iterated.                                                               *)
(***************************************************************************)
InvalidShape(req) ==
    \/ req.body = "invalid_json"
    \/ /\ req.body = "object"
       /\ \/ req.message = <<>>
          \/ req.message[1] = <<>>
          \/ HistoryRaises(req.history)

C10_InvalidRequestRejected ==
    InvalidShape(request) =>
        /\ response.kind = "json"
        /\ response.status_code \in 400..499
        /\ ~response_started
        /\ upstream = "idle"
(***************************************************************************)
(* The rules of the classifier as the specification lists them, in         *)
(* priority order: the markers of each rule and the phrase of its label.   *)
(***************************************************************************)
RuleMarkers ==
    << {kw_semantic_search},
       {kw_execute_sales_query, kw_get_table_schemas},
       {kw_get_current_utc_date},
       {kw_image},
       {kw_web_search},
       {kw_code},
       {kw_query, kw_sql, kw_database, kw_order, kw_customer, kw_product} >>

RulePhrases ==
    << say_searching_products, say_querying_database, say_getting_time,
       say_generating_image, say_searching_web, say_running_code,
       say_querying_database >>

\* the rules with a marker in name, letter case ignored
RulesMatching(name) ==
    {r \in 1..Len(RuleMarkers) :
        \E marker \in RuleMarkers[r] : StrContains(StrLower(name), marker)}

(***************************************************************************)
(* C11: get_tool_status gives ["execute_sales_query"] the "Querying        *)
(* database" label, ["generate_image"] the "Generating image" label,       *)
(* ["unknown_tool_x"] "Using unknown_tool_x" and the empty list "Using     *)
(* tool"; a single name with the marker of exactly one rule gets that      *)
(* rule's label.  (The labels carry an emoji before and "..." after the    *)
(* phrase.)                                                                *)
(***************************************************************************)
C11_ClassifierExamples ==
    status_call.called /\ status_call.returned =>
        LET names == status_call.tool_names
            msg == status_call.status_msg
        IN /\ names = <<kw_execute_sales_query>> => msg = lbl_querying_database
           /\ names = <<kw_generate_image>> => msg = lbl_generating_image
           /\ names = <<name_unknown_tool_x>> =>
                 /\ StrContains(msg, say_using_unknown_tool_x)
                 /\ ~StrContains(msg, say_using_unknown_tool_x \o <<"_">>)
           /\ names = <<>> => StrContains(msg, say_using_tool)
           /\ Len(names) = 1 /\ Cardinality(RulesMatching(names[1])) = 1 =>
                 \A r \in RulesMatching(names[1]) : StrContains(msg, RulePhrases[r])

\* the call with ["unknown_tool_x"] has returned its label
C11_Witness ==
    /\ status_call.called
    /\ status_call.returned
    /\ status_call.tool_names = <<name_unknown_tool_x>>
    /\ StrContains(status_call.status_msg, say_using_unknown_tool_x)
(***************************************************************************)
(* The records of the message pulled last.  They are complete once the     *)
(* generator has no yield of that message left.                            *)
(***************************************************************************)
Events == SubSeq(out, before.n + 1, Len(out))

EventDone ==
    /\ token # NoToken
    /\ pending = <<>>
    /\ gen \in {"yielded", "awaiting"}

\* the position of the first c in s from position i on; 0 without one
RECURSIVE IndexOfChar(_, _, _)
IndexOfChar(s, c, i) ==
    IF i > Len(s) THEN 0
    ELSE IF s[i] = c THEN i
    ELSE IndexOfChar(s, c, i + 1)

BeforeFirstComma(url) == SubSeq(url, 1, IndexOfChar(url, ",", 1) - 1)

AfterFirstComma(url) == SubSeq(url, IndexOfChar(url, ",", 1) + 1, Len(url))

\* what stands between the leading data:image/ and the next ";"
FormatBetween(prefix) ==
    SubSeq(prefix, Len(str_data_image) + 1,
           IndexOfChar(prefix, ";", Len(str_data_image) + 1) - 1)

\* the url of a message that is one image block or one code interpreter
\* call with one image output
UrlOf(t) ==
    LET block == t.content.list[1] IN
    IF block.type = "image" THEN block.url[1] ELSE block.outputs[1].url[1]

(***************************************************************************)
(* C12: an image payload that is a string starting with data:image/ and    *)
(* containing a comma yields an Image whose base64 is everything after the *)
(* first comma and whose format is what stands between image/ and the next *)
(* ";" of the part before the comma (data:image/jpeg;base64,QUJD gives     *)
(* base64 QUJD and format jpeg), the same for an image block and for an    *)
(* image output of a code_interpreter_call block.                          *)
(***************************************************************************)
C12_DataUriExtraction ==
    EventDone /\ token \in DataUriTokens =>
        LET url == UrlOf(token)
            prefix == BeforeFirstComma(url)
            expected == ImageData(AfterFirstComma(url), FormatBetween(prefix))
        IN /\ StartsWith(url, str_data_image)
              /\ IndexOfChar(url, ",", 1) # 0
              /\ IndexOfChar(prefix, ";", 1) # 0
              => /\ ImageList(Events, Len(Events)) = <<expected>>
                 /\ images = Append(before.images, expected)
           /\ url = uri_abcd =>
                 ImageList(Events, Len(Events)) = <<ImageData(b64_abcd, fmt_jpeg)>>

\* a code interpreter output whose payload has a second comma was emitted
C12_Witness ==
    /\ EventDone
    /\ token = CodeImageToken(uri_two_commas)
    /\ ImageList(Events, Len(Events)) = <<ImageData(b64_two_parts, str_png)>>
\* the chunks among the first n records of s, in order
RECURSIVE ChunkList(_, _)
ChunkList(s, n) ==
    IF n = 0 THEN <<>>
    ELSE IF IsChunk(s[n]) THEN Append(ChunkList(s, n - 1), s[n].chunk)
    ELSE ChunkList(s, n - 1)

EventChunks == ChunkList(Events, Len(Events))

EventImages == ImageList(Events, Len(Events))

EventHas(P(_)) == \E i \in 1..Len(Events) : P(Events[i])

\* the message pulled last is an AI message without tool calls whose content
\* is a non-empty string
PlainStringEvent ==
    /\ EventDone
    /\ token.type \notin {"tool", "function"}
    /\ token.tool_calls = <<>>
    /\ token.additional_kwargs.tool_calls = <<>>
    /\ token.content.kind = "str"
    /\ token.content.str # <<>>

\* s is a JSON-encoded object whose type is "image"
IsJsonImage(s) ==
    /\ JsonLoads(s).ok
    /\ DictGet(JsonLoads(s).val, str_type) = <<kw_image>>

(***************************************************************************)
(* C13: a message that is no tool result, declares no tool calls and has   *)
(* non-empty string content yields exactly one Image, no Chunk and leaves  *)
(* full_response unchanged when the string is a JSON object with type      *)
(* "image", whatever the JSON whitespace; otherwise it yields exactly one  *)
(* Chunk with the content verbatim.  In neither case is a Status emitted.  *)
(***************************************************************************)
C13_StringContent ==
    PlainStringEvent =>
        /\ IF IsJsonImage(token.content.str)
           THEN /\ Len(EventImages) = 1
                /\ EventChunks = <<>>
                /\ full_response = before.full_response
           ELSE EventChunks = <<token.content.str>>
        /\ ~EventHas(IsStatus)
(***************************************************************************)
(* C14: string content that looks like a JSON image object but is not      *)
(* valid JSON ("{not valid", or a string that starts with "{" and holds    *)
(* "type": "image" without being valid JSON) is emitted as exactly one     *)
(* Chunk with the literal string and appended to full_response; it is      *)
(* neither dropped nor does it end the stream.                             *)
(***************************************************************************)
C14_MalformedJsonIsText ==
    /\ PlainStringEvent
    /\ StartsWith(token.content.str, <<"{">>)
    /\ ~JsonLoads(token.content.str).ok
    => /\ EventChunks = <<token.content.str>>
       /\ EventImages = <<>>
       /\ full_response = before.full_response \o token.content.str
       /\ upstream = "open"

\* the broken image object went out as text after an earlier message
C14_Witness ==
    /\ PlainStringEvent
    /\ token.content.str = json_broken
    /\ before.n > 0
    /\ EventChunks = <<json_broken>>
\* the message pulled last declares no tool calls and its content is the
\* block list [server_tool_call, server_tool_result]
ServerPairEvent ==
    /\ EventDone
    /\ token.type \notin {"tool", "function"}
    /\ token.tool_calls = <<>>
    /\ token.additional_kwargs.tool_calls = <<>>
    /\ token.content.kind = "list"
    /\ Len(token.content.list) = 2
    /\ token.content.list[1].type = "server_tool_call"
    /\ token.content.list[1].name # <<>>
    /\ token.content.list[2].type = "server_tool_result"

(***************************************************************************)
(* C15: a message without tool calls, processed while no status is active, *)
(* whose content is [server_tool_call{name}, server_tool_result] yields    *)
(* exactly Status(get_tool_status([name])) and then StatusClear, no Chunk, *)
(* and tool_in_progress is false afterwards; for web_search the label is   *)
(* the "Searching the web" label.                                          *)
(***************************************************************************)
C15_ServerToolPair ==
    ServerPairEvent /\ ~before.tool_in_progress =>
        LET name == token.content.list[1].name[1] IN
        /\ Events = <<StatusRec(get_tool_status(<<name>>)), StatusRec(<<>>)>>
        /\ ~tool_in_progress
        /\ name = kw_web_search => StrContains(Events[1].status, say_searching_web)

\* the web_search pair has produced its status and the clear
C15_Witness ==
    /\ ServerPairEvent
    /\ ~before.tool_in_progress
    /\ token.content.list[1].name = <<kw_web_search>>
    /\ Len(Events) = 2
    /\ IsStatus(Events[1])
    /\ IsStatusClear(Events[2])
\* the message pulled last is no tool result and declares tool calls
ToolCallEvent ==
    /\ EventDone
    /\ token.type \notin {"tool", "function"}
    /\ \/ token.tool_calls # <<>>
       \/ token.additional_kwargs.tool_calls # <<>>

\* the names a message declares, from tool_calls or else additional_kwargs
DeclaredNames(t) ==
    IF t.tool_calls # <<>>
    THEN [i \in 1..Len(t.tool_calls) |-> t.tool_calls[i].name[1]]
    ELSE [i \in 1..Len(t.additional_kwargs.tool_calls) |->
             t.additional_kwargs.tool_calls[i].function.name[1]]

(***************************************************************************)
(* C20: a message that declares tool calls (in tool_calls or in            *)
(* additional_kwargs) yields exactly one Status, labelled by               *)
(* get_tool_status of the declared names, and sets tool_in_progress when   *)
(* no status is active; it yields nothing when one is active.  Either way  *)
(* it yields no Chunk, Image or StatusClear, whatever content or response  *)
(* metadata it carries, and full_response and images are unchanged.        *)
(***************************************************************************)
C20_ToolCallsOnlyAnnounce ==
    ToolCallEvent =>
        /\ IF before.tool_in_progress
           THEN Events = <<>>
           ELSE Events = <<StatusRec(get_tool_status(DeclaredNames(token)))>>
        /\ tool_in_progress
        /\ full_response = before.full_response
        /\ images = before.images

\* a message with tool calls, text and a metadata image arrived while a
\* status was showing and yielded nothing
C20_Witness ==
    /\ ToolCallEvent
    /\ before.tool_in_progress
    /\ token.content = StrContent(txt_hello)
    /\ token.response_metadata.outputs # <<>>
    /\ before.n > 0
    /\ Events = <<>>
\* the records of the yields ys, in order
Records(ys) == [i \in 1..Len(ys) |-> ys[i].rec]

\* all records the message pulled last yields, from the locals it met
EventRecords ==
    Records(ProcessToken(Locals(before.full_response, before.images,
                                before.tool_in_progress), token).ys)

(***************************************************************************)
(* C17: records are written in the order their messages are processed, and *)
(* the next message is requested from agent.astream only after every       *)
(* record of the current one has been written: a step that pulls a message *)
(* starts with the generator awaiting and no yield left; written records   *)
(* are never changed or reordered; and the records written since the last  *)
(* pull, followed by the yields still to come, are exactly the records of  *)
(* that one message.                                                       *)
(***************************************************************************)
\* the records written since the last pull, followed by the yields still to
\* come, are the records of the message pulled last
EventRecordsInOrder ==
    token # NoToken /\ gen \in {"yielded", "awaiting"} =>
        Events \o Records(pending) = EventRecords

C17_OneEventAtATime ==
    /\ []EventRecordsInOrder
    /\ [][ /\ pulled' # pulled =>
                  /\ gen = "awaiting"
                  /\ pending = <<>>
                  /\ pulled' = pulled + 1
                  /\ before'.n = Len(out)
            /\ Len(out') >= Len(out)
            /\ SubSeq(out', 1, Len(out)) = out
          ]_vars

\* a second message was pulled after both records of the first were written
C17_Witness ==
    /\ pulled = 2
    /\ before.n >= 2
    /\ Len(out) > before.n
    /\ gen = "yielded"
(***************************************************************************)
(* C18: a Status is never written with an empty status value: the label    *)
(* get_tool_status returns is non-empty for every list of names, the empty *)
(* list and empty names included, and so is the code interpreter's label;  *)
(* a record whose status is "" is therefore always a StatusClear.          *)
(***************************************************************************)
C18_LabelsNonEmpty ==
    /\ lbl_running_code # <<>>
    /\ status_call.called /\ status_call.returned =>
          /\ status_call.status_msg # <<>>
          /\ ~IsStatusClear(StatusRec(status_call.status_msg))

\* the call with one empty name has returned a label
C18_Witness ==
    /\ status_call.called
    /\ status_call.returned
    /\ status_call.tool_names = << <<>> >>
    /\ Len(status_call.status_msg) > 0
\* the forbidden patterns as the claim lists them, in lower case
ForbiddenLower ==
    { <<"-", "-">>, <<"/", "*">>, StrLower(pat_DROP), StrLower(pat_DELETE),
      StrLower(pat_INSERT), StrLower(pat_UPDATE), StrLower(pat_ALTER),
      StrLower(pat_CREATE), StrLower(pat_TRUNCATE), StrLower(pat_GRANT),
      StrLower(pat_REVOKE), StrLower(pat_EXEC), StrLower(pat_EXECUTE) }

\* the positions of s that hold no blank
NonBlank(s) == {i \in 1..Len(s) : s[i] # " "}

\* s without the blanks around it
Trimmed(s) ==
    IF NonBlank(s) = {} THEN <<>>
    ELSE SubSeq(s, CHOOSE i \in NonBlank(s) : \A j \in NonBlank(s) : i <= j,
                   CHOOSE i \in NonBlank(s) : \A j \in NonBlank(s) : i >= j)

\* the query trimmed, without one trailing semicolon
TrimmedQuery(query) ==
    LET t == Trimmed(query) IN
    IF t # <<>> /\ t[Len(t)] = ";" THEN Trimmed(SubSeq(t, 1, Len(t) - 1)) ELSE t

\* the query is one the claim lets through
Acceptable(query) ==
    LET t == StrLower(TrimmedQuery(query)) IN
    /\ StartsWith(t, StrLower(sql_SELECT))
    /\ \A i \in 1..Len(t) : t[i] # ";"
    /\ \A pattern \in ForbiddenLower : ~StrContains(t, pattern)

(***************************************************************************)
(* C19: execute_sales_query reaches the database only with queries that    *)
(* validate_sql_query accepts: every query passed to execute_query, once   *)
(* trimmed and without one trailing semicolon, starts with SELECT in any   *)
(* letter case, holds no further semicolon and none of the forbidden       *)
(* patterns; when validation fails or the database is not configured the   *)
(* call raises a ToolError and executes nothing.                           *)
(***************************************************************************)
C19_OnlyValidatedQueriesRun ==
    mcp.running =>
        \A i \in 1..Len(mcp.calls) :
            LET call == mcp.calls[i] IN
            /\ call.executed # <<>> =>
                  /\ call.executed = <<call.query>>
                  /\ Acceptable(call.query)
                  /\ mcp.db_provider
            /\ ~Acceptable(call.query) \/ ~mcp.db_provider =>
                  /\ call.executed = <<>>
                  /\ ~call.outcome.ok

\* a padded lower-case query ran and a stacked one was refused
C19_Witness ==
    /\ mcp.running
    /\ Len(mcp.calls) = 2
    /\ mcp.calls[1] = Call(q_padded, <<q_padded>>, Valid)
    /\ mcp.calls[2].query = q_two_selects
    /\ ~mcp.calls[2].outcome.ok
\* one generator run alone on the first n of the messages tokens: its locals
\* at the end and all the records it yields
RECURSIVE RunAlone(_, _)
RunAlone(tokens, n) ==
    IF n = 0 THEN [a |-> Locals(<<>>, <<>>, FALSE), recs |-> <<>>]
    ELSE LET p == RunAlone(tokens, n - 1)
             r == ProcessToken(Locals(p.a.full_response, p.a.images,
                                      p.a.tool_in_progress), tokens[n])
         IN [a |-> r, recs |-> p.recs \o Records(r.ys)]

\* everything a generator run alone writes for the messages s has received,
\* the final message included once its stream has ended
AloneOutput(s) ==
    LET run == RunAlone(s.delivered, Len(s.delivered)) IN
    IF s.gen \in {"yielded_final", "returned"}
    THEN run.recs \o <<DoneRec(run.a.full_response, run.a.images)>>
    ELSE run.recs

(***************************************************************************)
(* C16: two requests streamed at the same time share no state: under every *)
(* interleaving of the steps of two generators, what each has written,     *)
(* followed by the yields of its current message still to come, is the     *)
(* output it produces when run alone on the messages it received (chunks,  *)
(* statuses, images and the final message with its text and images).       *)
(***************************************************************************)
C16_SessionsIndependent ==
    sessions # NoSessions =>
        \A i \in SessionIds :
            sessions[i].out \o Records(sessions[i].pending) = AloneOutput(sessions[i])

\* one generator shows a status while the other, which announced a tool and
\* then wrote an image, has ended
C16_Witness ==
    /\ sessions # NoSessions
    /\ sessions[1].tool_in_progress
    /\ sessions[1].gen = "awaiting"
    /\ sessions[2].gen = "returned"
    /\ ~sessions[2].tool_in_progress
    /\ Len(sessions[2].out) = 4
\* the message pulled last is no tool result and declares no tool calls
PlainEvent ==
    /\ EventDone
    /\ token.type \notin {"tool", "function"}
    /\ token.tool_calls = <<>>
    /\ token.additional_kwargs.tool_calls = <<>>

\* the records of the message pulled last start with a StatusClear
ClearedFirst == Events # <<>> /\ IsStatusClear(Events[1])

(***************************************************************************)
(* C21: for a message that is no tool result and declares no tool calls, a *)
(* StatusClear is written ahead of the content exactly when                *)
(* tool_in_progress is true and the content is non-empty; with empty       *)
(* content the message yields no record at all and leaves                  *)
(* tool_in_progress, full_response and images unchanged, even if a status  *)
(* is active.                                                              *)
(***************************************************************************)
C21_ClearOnlyWithContent ==
    PlainEvent =>
        IF ContentEmpty(token.content)
        THEN /\ Events = <<>>
             /\ tool_in_progress = before.tool_in_progress
             /\ full_response = before.full_response
             /\ images = before.images
        ELSE ClearedFirst <=> before.tool_in_progress
\* the message pulled last is a tool result
ToolResultEvent == EventDone /\ token.type \in {"tool", "function"}

(***************************************************************************)
(* C22: a tool result (message type tool or function) yields exactly one   *)
(* Image when its content is a string encoding a JSON object with type     *)
(* "image" and nothing otherwise; it never yields a Chunk, Status or       *)
(* StatusClear and leaves full_response and tool_in_progress unchanged, so *)
(* a status active before it is still active after it.                     *)
(***************************************************************************)
C22_ToolResultOnlyImage ==
    ToolResultEvent =>
        /\ IF token.content.kind = "str" /\ IsJsonImage(token.content.str)
           THEN Len(Events) = 1 /\ IsImage(Events[1])
           ELSE Events = <<>>
        /\ full_response = before.full_response
        /\ tool_in_progress = before.tool_in_progress
\* the message pulled last is a block list that ends with a
\* code_interpreter_call block, alone or after one server_tool_call block
CodeBlockEvent ==
    /\ PlainEvent
    /\ token.content.kind = "list"
    /\ Len(token.content.list) \in {1, 2}
    /\ token.content.list[Len(token.content.list)].type = "code_interpreter_call"
    /\ Len(token.content.list) = 2 => token.content.list[1].type = "server_tool_call"

\* a status is active when the code_interpreter_call block is reached: the
\* server_tool_call block before it has announced one
ActiveAtCodeBlock == Len(token.content.list) = 2

\* the records of the code_interpreter_call block: those of the message
\* without the clear ahead of the content and the server tool's status
CodeBlockRecords ==
    SubSeq(Events,
           (IF before.tool_in_progress THEN 1 ELSE 0)
             + (IF ActiveAtCodeBlock THEN 1 ELSE 0) + 1,
           Len(Events))

(***************************************************************************)
(* C23: a code_interpreter_call block with no outputs yields exactly one   *)
(* Status "Running code" and sets tool_in_progress when no status is       *)
(* active, and yields nothing when one is; with outputs it yields no       *)
(* Status, and a StatusClear ahead of its Images exactly when a status was *)
(* active, leaving tool_in_progress false.                                 *)
(***************************************************************************)
C23_CodeInterpreterStatus ==
    CodeBlockEvent =>
        LET outputs == token.content.list[Len(token.content.list)].outputs
            recs == CodeBlockRecords
        IN IF outputs = <<>>
           THEN /\ tool_in_progress
                /\ IF ActiveAtCodeBlock
                   THEN recs = <<>>
                   ELSE /\ Len(recs) = 1
                        /\ IsStatus(recs[1])
                        /\ StrContains(recs[1].status, say_running_code)
           ELSE /\ ~tool_in_progress
                /\ \A i \in 1..Len(recs) : ~IsStatus(recs[i])
                /\ ActiveAtCodeBlock => recs # <<>> /\ IsStatusClear(recs[1])
                /\ \A i \in 1..Len(recs) :
                      IsStatusClear(recs[i]) => i = 1 /\ ActiveAtCodeBlock

\* outputs came while the server tool's status was showing: the clear and
\* then both images were written
C23_Witness ==
    /\ CodeBlockEvent
    /\ ActiveAtCodeBlock
    /\ Len(CodeBlockRecords) = 3
    /\ IsStatusClear(CodeBlockRecords[1])
    /\ IsImage(CodeBlockRecords[3])
    /\ ~tool_in_progress
(***************************************************************************)
(* The Image Extractor as the specification describes it (section 4.3):    *)
(* the images found in one output, in order.                               *)
(***************************************************************************)
RECURSIVE AfterLastSlash(_)
AfterLastSlash(s) ==
    IF IndexOfChar(s, "/", 1) = 0 THEN s
    ELSE AfterLastSlash(SubSeq(s, IndexOfChar(s, "/", 1) + 1, Len(s)))

\* one image per file whose mime_type contains "image", from file i on
RECURSIVE FileImages(_, _)
FileImages(files, i) ==
    IF i > Len(files) THEN <<>>
    ELSE IF files[i].mime_type # <<>> /\ StrContains(files[i].mime_type[1], kw_image)
    THEN <<ImageData(GetOr(files[i].file_data, <<>>), AfterLastSlash(files[i].mime_type[1]))>>
            \o FileImages(files, i + 1)
    ELSE FileImages(files, i + 1)

\* data-URI form, direct form (base64 or data) and files form
ExtractedFrom(output) ==
    IF output.type = "files" THEN FileImages(output.files, 1)
    ELSE IF output.type # "image" THEN <<>>
    ELSE IF output.url # <<>> /\ StartsWith(output.url[1], str_data_image)
    THEN IF IndexOfChar(output.url[1], ",", 1) = 0 THEN <<>>
         ELSE <<ImageData(AfterFirstComma(output.url[1]),
                          FormatBetween(BeforeFirstComma(output.url[1])))>>
    ELSE IF output.base64 # <<>> /\ output.base64[1] # <<>>
    THEN <<ImageData(output.base64[1], GetOr(output.format, str_png))>>
    ELSE IF output.data # <<>> /\ output.data[1] # <<>>
    THEN <<ImageData(output.data[1], GetOr(output.format, str_png))>>
    ELSE <<>>

\* the images found in the outputs from output i on, in order
RECURSIVE ExtractedImages(_, _)
ExtractedImages(outputs, i) ==
    IF i > Len(outputs) THEN <<>>
    ELSE ExtractedFrom(outputs[i]) \o ExtractedImages(outputs, i + 1)

(***************************************************************************)
(* C24: a code_interpreter_call block with outputs yields, in output       *)
(* order, an Image for every output in which the Image Extractor finds a   *)
(* payload, in all three forms: an image output with a data-URI url, an    *)
(* image output with a base64 or data field, and a files output (one       *)
(* Image per file whose mime_type contains "image").                       *)
(***************************************************************************)
C24_CodeOutputsAllForms ==
    /\ PlainEvent
    /\ token.content.kind = "list"
    /\ Len(token.content.list) = 1
    /\ token.content.list[1].type = "code_interpreter_call"
    /\ token.content.list[1].outputs # <<>>
    => EventImages = ExtractedImages(token.content.list[1].outputs, 1)
\* the outputs the metadata of the message pulled last is read from: the
\* nested list, the top-level list when that is absent or empty
MetadataSource ==
    IF token.response_metadata.code_interpreter_call.outputs # <<>>
    THEN token.response_metadata.code_interpreter_call.outputs
    ELSE token.response_metadata.outputs

MetadataImageRecords ==
    LET found == ExtractedImages(MetadataSource, 1) IN
    [i \in 1..Len(found) |-> ImageRec(found[i])]

\* the records of the content of the message pulled last: what the message
\* yields without its metadata once the status is reset
ContentRecords ==
    Records(ProcessToken(Locals(before.full_response, before.images, FALSE),
                         [token EXCEPT !.response_metadata = NoMetadata]).ys)

(***************************************************************************)
(* C25: for a message with non-empty content, images are taken from the    *)
(* metadata's code_interpreter_call.outputs, and from the top-level        *)
(* outputs only when the nested list is absent or empty; every Image of    *)
(* the metadata is written before any Chunk, Status or Image of the        *)
(* content; a message with empty content yields no metadata image.         *)
(***************************************************************************)
C25_MetadataImagesFirst ==
    PlainEvent =>
        IF ContentEmpty(token.content)
        THEN EventImages = <<>>
        ELSE Events =
                (IF before.tool_in_progress THEN <<StatusRec(<<>>)>> ELSE <<>>)
                  \o MetadataImageRecords \o ContentRecords

\* the top-level image went out ahead of the text and the image of the blocks
C25_Witness ==
    /\ PlainEvent
    /\ token.response_metadata.outputs # <<>>
    /\ token.content.kind = "list"
    /\ ~before.tool_in_progress
    /\ Len(Events) = 3
    /\ Events[1] = ImageRec(ImageData(b64_a, fmt_jpeg))
    /\ IsChunk(Events[2])
    /\ IsImage(Events[3])
(***************************************************************************)
(* C26: no Image with an empty base64 payload is ever written or placed in *)
(* the final record's images: on every extraction path a source whose      *)
(* base64, data or file_data field is missing or empty yields no Image.    *)
(***************************************************************************)
C26_NoEmptyImage ==
    \A i \in 1..Len(out) :
        /\ IsImage(out[i]) => out[i].image.base64 # <<>>
        /\ IsDoneRecord(out[i]) =>
              \A k \in 1..Len(out[i].images) : out[i].images[k].base64 # <<>>
(***************************************************************************)
(* C27: every Image written has a non-empty format: when the source gives  *)
(* none (no format field, or a data URI or mime type with nothing between  *)
(* image/ and the next ";" or the end), the format is "png".               *)
(***************************************************************************)
C27_FormatNeverEmpty ==
    /\ \A i \in 1..Len(out) : IsImage(out[i]) => out[i].image.format # <<>>
    /\ /\ EventDone
       /\ token.content.kind = "list"
       /\ Len(token.content.list) = 1
       /\ token.content.list[1].type = "image"
       /\ token.content.list[1].url # <<>>
       /\ StartsWith(token.content.list[1].url[1], str_data_image)
       /\ IndexOfChar(token.content.list[1].url[1], ",", 1) # 0
       /\ FormatBetween(BeforeFirstComma(token.content.list[1].url[1])) = <<>>
       => EventImages = <<ImageData(AfterFirstComma(token.content.list[1].url[1]), str_png)>>
(***************************************************************************)
(* The rules in priority order with the fallback keywords as the function  *)
(* lists them.                                                             *)
(***************************************************************************)
FallbackKeywords ==
    {kw_query, kw_sql, kw_database, kw_db, kw_sales, kw_customer, kw_order,
     kw_product}

PriorityMarkers == [RuleMarkers EXCEPT ![Len(RuleMarkers)] = FallbackKeywords]

\* the rules with a marker in name, letter case ignored
PriorityMatching(name) ==
    {r \in 1..Len(PriorityMarkers) :
        \E marker \in PriorityMarkers[r] : StrContains(StrLower(name), marker)}

\* the positions of the names that match some rule
MatchingPositions(names) ==
    {k \in 1..Len(names) : PriorityMatching(names[k]) # {}}

Least(S) == CHOOSE x \in S : \A y \in S : x <= y

\* msg carries the phrase of rule r and of no rule with another phrase
SaysRule(msg, r) ==
    /\ StrContains(msg, RulePhrases[r])
    /\ \A q \in 1..Len(RulePhrases) :
          RulePhrases[q] # RulePhrases[r] => ~StrContains(msg, RulePhrases[q])
    /\ ~StrContains(msg, say_using)

(***************************************************************************)
(* C28: get_tool_status returns the label of the first name, in list       *)
(* order, that matches any rule, by that name's highest-priority matching  *)
(* rule (semantic_search, then execute_sales_query/get_table_schemas, then *)
(* get_current_utc_date, then image, web_search, code, then the fallback   *)
(* keywords); a later name never overrides an earlier matching one, and    *)
(* matching ignores letter case.                                           *)
(***************************************************************************)
C28_FirstMatchingNameWins ==
    status_call.called /\ status_call.returned =>
        LET names == status_call.tool_names
            msg   == status_call.status_msg
        IN  MatchingPositions(names) # {} =>
                SaysRule(msg,
                    Least(PriorityMatching(names[Least(MatchingPositions(names))])))

\* ["Web_Search", "semantic_search"] got the web-search label: the first
\* name matches only with its case ignored, the second matches rule 1
C28_Witness ==
    /\ status_call.called
    /\ status_call.returned
    /\ status_call.tool_names = <<name_Web_Search, kw_semantic_search>>
    /\ StrContains(status_call.status_msg, say_searching_web)

\* the default label: "Using <first name>", "Using tool" for the empty list
SaysUsing(msg, names) ==
    /\ StrContains(msg, say_using \o (IF names # <<>> THEN names[1] ELSE str_tool))
    /\ \A q \in 1..Len(RulePhrases) : ~StrContains(msg, RulePhrases[q])

(***************************************************************************)
(* C29 as stated: when no name contains a domain marker, a built-in marker *)
(* or one of the fallback keywords query, sql, database, order, customer,  *)
(* product, get_tool_status returns "Using <first name>" with the name's   *)
(* letter case kept, and "Using tool" for the empty list.                  *)
(***************************************************************************)
C29_DefaultLabelSixKeywords ==
    status_call.called /\ status_call.returned =>
        LET names == status_call.tool_names IN
        (\A k \in 1..Len(names) : RulesMatching(names[k]) = {}) =>
            SaysUsing(status_call.status_msg, names)

(***************************************************************************)
(* C29: when no name contains a domain marker, a built-in marker or one of *)
(* the fallback keywords query, sql, database, db, sales, customer, order, *)
(* product, get_tool_status returns "Using <first name>" with the name's   *)
(* letter case kept, and "Using tool" for the empty list.                  *)
(***************************************************************************)
C29_DefaultLabel ==
    status_call.called /\ status_call.returned =>
        LET names == status_call.tool_names IN
        MatchingPositions(names) = {} =>
            SaysUsing(status_call.status_msg, names)

\* ["Get_Weather", "unknown_tool_x"] got "Using Get_Weather"
C29_Witness ==
    /\ status_call.called
    /\ status_call.returned
    /\ status_call.tool_names = <<name_Get_Weather, name_unknown_tool_x>>
    /\ StrContains(status_call.status_msg, say_using \o name_Get_Weather)
(***************************************************************************)
(* C30: at every point between the records of a stream, tool_in_progress   *)
(* is true if and only if a Status has been written and the last           *)
(* status-kind record written (Status or StatusClear) is a Status; it is   *)
(* false when the stream starts.                                           *)
(***************************************************************************)
C30_FlagTracksLastStatus ==
    /\ gen \in {"awaiting", "yielded", "yielded_final", "returned", "raised"} =>
          LET shown == Positions(IsStatusKind) IN
          tool_in_progress <=>
              /\ Positions(IsStatus) # {}
              /\ \E i \in shown : IsStatus(out[i]) /\ \A j \in shown : j <= i
    /\ gen = "awaiting" /\ pulled = 0 => ~tool_in_progress

\* a status was shown, cleared, and another one is showing
C30_Witness ==
    /\ gen = "yielded"
    /\ tool_in_progress
    /\ \E i, j, k \in 1..Len(out) :
          /\ i < j /\ j < k /\ k = Len(out)
          /\ IsStatus(out[i]) /\ IsStatusClear(out[j]) /\ IsStatus(out[k])
====
